---- MODULE Spec2Model ----
(***************************************************************************)
(* ECPay request signing and response integrity (CheckMacValue):           *)
(* EcpaySecurityHelper, ecpay_url_encode and the GatewayFactory that       *)
(* builds the helper.                                                      *)
(*                                                                         *)
(* A Python str is a sequence of code points; a dict is the sequence of    *)
(* its <<key, value>> items in insertion order; a value is <<"str", s>>,   *)
(* <<"int", n>> or <<"none", 0>>; the outcome of a call is                 *)
(* <<"return", v>> or <<"raise", exception name>>.                         *)
(***************************************************************************)
EXTENDS Integers, Sequences, FiniteSets, TLC

\* ------------------------------------------------------------------------
\* str
\* ------------------------------------------------------------------------

\* str.lower(), for the code points below 256
LowerChar(c) ==
  IF (c >= 65 /\ c <= 90) \/ (c >= 192 /\ c <= 222 /\ c /= 215) THEN c + 32 ELSE c

Lower(s) == [i \in 1..Len(s) |-> LowerChar(s[i])]

\* str.upper(), for ASCII text (a hex digest)
UpperChar(c) == IF c >= 97 /\ c <= 122 THEN c - 32 ELSE c

Upper(s) == [i \in 1..Len(s) |-> UpperChar(s[i])]

\* a < b on str: lexicographic by code point
StrLess(a, b) ==
  LET n == IF Len(a) < Len(b) THEN Len(a) ELSE Len(b)
      differ == { i \in 1..n : a[i] /= b[i] }
      first == CHOOSE i \in differ : \A j \in differ : i =< j
  IN IF differ = { } THEN Len(a) < Len(b) ELSE a[first] < b[first]

\* str(n) of an int: base 10, "-" for a negative number
RECURSIVE Digits(_)
Digits(n) == IF n < 10 THEN << 48 + n >> ELSE Append(Digits(n \div 10), 48 + (n % 10))

IntStr(n) == IF n < 0 THEN << 45 >> \o Digits(0 - n) ELSE Digits(n)

\* f"{v}" of a float: an int is given a fraction
FormatAsFloat(v) ==
  IF v[1] = "str" THEN v[2]
  ELSE IF v[1] = "int" THEN IntStr(v[2]) \o << 46, 48 >>
  ELSE << 78, 111, 110, 101 >>

\* f"{v}"
Format(v) ==
  IF v[1] = "str" THEN v[2]
  ELSE IF v[1] = "int" THEN IntStr(v[2])
  ELSE << 78, 111, 110, 101 >>                      \* "None"

IsAscii(s) == \A i \in 1..Len(s) : s[i] < 128

\* parts[lo] \o ... \o parts[hi]. The range is cut in eight, so that the
\* evaluation of a long text nests only a few levels
RECURSIVE Concat(_, _, _)
Concat(parts, lo, hi) ==
  IF hi - lo < 8
  THEN LET p(k) == IF lo + k =< hi THEN parts[lo + k] ELSE << >>
       IN ((p(0) \o p(1)) \o (p(2) \o p(3))) \o ((p(4) \o p(5)) \o (p(6) \o p(7)))
  ELSE LET step == ((hi - lo) \div 8) + 1
           c(k) == Concat(parts, lo + k * step,
                          IF lo + (k + 1) * step - 1 < hi THEN lo + (k + 1) * step - 1 ELSE hi)
       IN ((c(0) \o c(1)) \o (c(2) \o c(3))) \o ((c(4) \o c(5)) \o (c(6) \o c(7)))

Flatten(parts) == Concat(parts, 1, Len(parts))

\* sep.join(parts)
Join(sep, parts) ==
  Flatten([i \in 1..Len(parts) |-> IF i = 1 THEN parts[i] ELSE sep \o parts[i]])

\* ------------------------------------------------------------------------
\* dict
\* ------------------------------------------------------------------------

DictHas(d, k) == \E i \in 1..Len(d) : d[i][1] = k

DictGet(d, k) == d[CHOOSE i \in 1..Len(d) : d[i][1] = k][2]

DictDel(d, k) == SelectSeq(d, LAMBDA e : e[1] /= k)

\* d[k] = v: an existing key keeps its place, a new key goes last
DictSet(d, k, v) ==
  IF DictHas(d, k) THEN [i \in 1..Len(d) |-> IF d[i][1] = k THEN << k, v >> ELSE d[i]]
  ELSE Append(d, << k, v >>)

CheckMacValueKey == << 67, 104, 101, 99, 107, 77, 97, 99, 86, 97, 108, 117, 101 >>   \* "CheckMacValue"

\* ------------------------------------------------------------------------
\* urllib.parse.quote_plus as ecpay_url_encode calls it
\* ------------------------------------------------------------------------

\* str.encode("utf-8") of one code point
Utf8(c) ==
  IF c < 128 THEN << c >>
  ELSE IF c < 2048 THEN << 192 + (c \div 64), 128 + (c % 64) >>
  ELSE IF c < 65536 THEN << 224 + (c \div 4096), 128 + ((c \div 64) % 64), 128 + (c % 64) >>
  ELSE << 240 + (c \div 262144), 128 + ((c \div 4096) % 64), 128 + ((c \div 64) % 64),
          128 + (c % 64) >>

Utf8Bytes(s) == Flatten([i \in 1..Len(s) |-> Utf8(s[i])])

HexUpper == << 48, 49, 50, 51, 52, 53, 54, 55, 56, 57, 65, 66, 67, 68, 69, 70 >>   \* "0123456789ABCDEF"
HexLower == << 48, 49, 50, 51, 52, 53, 54, 55, 56, 57, 97, 98, 99, 100, 101, 102 >> \* "0123456789abcdef"

\* letters, digits and "_.-~" are never quoted; safe adds "-_.~!*()"
SafeByte(b) ==
  \/ (b >= 48 /\ b <= 57) \/ (b >= 65 /\ b <= 90) \/ (b >= 97 /\ b <= 122)
  \/ b \in { 45, 95, 46, 126, 33, 42, 40, 41 }

\* one byte of the text: kept, "+" for the space, or %XX in upper-case hex
QuoteByte(b) ==
  IF SafeByte(b) THEN << b >>
  ELSE IF b = 32 THEN << 43 >>
  ELSE << 37, HexUpper[(b \div 16) + 1], HexUpper[(b % 16) + 1] >>

QuoteBytes(bs) == Flatten([i \in 1..Len(bs) |-> QuoteByte(bs[i])])

\* quote_plus(text) with no safe argument: only letters, digits and "_.-~"
\* are kept
quote_plus_without_safe(text) ==
  Flatten([i \in 1..Len(Utf8Bytes(text)) |->
             IF Utf8Bytes(text)[i] \in { 33, 42, 40, 41 }
             THEN << 37, HexUpper[(Utf8Bytes(text)[i] \div 16) + 1],
                     HexUpper[(Utf8Bytes(text)[i] % 16) + 1] >>
             ELSE QuoteByte(Utf8Bytes(text)[i])])

ecpay_url_encode(text) == QuoteBytes(Utf8Bytes(text))

\* ------------------------------------------------------------------------
\* hashlib.sha256 (FIPS 180-4); a 32-bit word is << high 16 bits, low 16 bits >>
\* ------------------------------------------------------------------------

Half == 65536

\* AndTab[16 * a + b + 1] is the bitwise and of the 4-bit numbers a and b
AndTab ==
  <<  0,  0,  0,  0,  0,  0,  0,  0,  0,  0,  0,  0,  0,  0,  0,  0,
      0,  1,  0,  1,  0,  1,  0,  1,  0,  1,  0,  1,  0,  1,  0,  1,
      0,  0,  2,  2,  0,  0,  2,  2,  0,  0,  2,  2,  0,  0,  2,  2,
      0,  1,  2,  3,  0,  1,  2,  3,  0,  1,  2,  3,  0,  1,  2,  3,
      0,  0,  0,  0,  4,  4,  4,  4,  0,  0,  0,  0,  4,  4,  4,  4,
      0,  1,  0,  1,  4,  5,  4,  5,  0,  1,  0,  1,  4,  5,  4,  5,
      0,  0,  2,  2,  4,  4,  6,  6,  0,  0,  2,  2,  4,  4,  6,  6,
      0,  1,  2,  3,  4,  5,  6,  7,  0,  1,  2,  3,  4,  5,  6,  7,
      0,  0,  0,  0,  0,  0,  0,  0,  8,  8,  8,  8,  8,  8,  8,  8,
      0,  1,  0,  1,  0,  1,  0,  1,  8,  9,  8,  9,  8,  9,  8,  9,
      0,  0,  2,  2,  0,  0,  2,  2,  8,  8, 10, 10,  8,  8, 10, 10,
      0,  1,  2,  3,  0,  1,  2,  3,  8,  9, 10, 11,  8,  9, 10, 11,
      0,  0,  0,  0,  4,  4,  4,  4,  8,  8,  8,  8, 12, 12, 12, 12,
      0,  1,  0,  1,  4,  5,  4,  5,  8,  9,  8,  9, 12, 13, 12, 13,
      0,  0,  2,  2,  4,  4,  6,  6,  8,  8, 10, 10, 12, 12, 14, 14,
      0,  1,  2,  3,  4,  5,  6,  7,  8,  9, 10, 11, 12, 13, 14, 15 >>

And16(a, b) ==
    AndTab[(a % 16) * 16 + (b % 16) + 1]
  + 16 * AndTab[((a \div 16) % 16) * 16 + ((b \div 16) % 16) + 1]
  + 256 * AndTab[((a \div 256) % 16) * 16 + ((b \div 256) % 16) + 1]
  + 4096 * AndTab[(a \div 4096) * 16 + (b \div 4096) + 1]

Xor16(a, b) == a + b - 2 * And16(a, b)

WXor(a, b) == << Xor16(a[1], b[1]), Xor16(a[2], b[2]) >>
WAnd(a, b) == << And16(a[1], b[1]), And16(a[2], b[2]) >>
WNot(a) == << Half - 1 - a[1], Half - 1 - a[2] >>
WAdd(a, b) ==
  LET lo == a[2] + b[2]
  IN << (a[1] + b[1] + (lo \div Half)) % Half, lo % Half >>

RotR(a, n) ==
  LET s == IF n >= 16 THEN << a[2], a[1] >> ELSE a
      m == n % 16
  IN IF m = 0 THEN s
     ELSE << (s[1] \div (2 ^ m)) + (s[2] % (2 ^ m)) * (2 ^ (16 - m)),
             (s[2] \div (2 ^ m)) + (s[1] % (2 ^ m)) * (2 ^ (16 - m)) >>

ShR(a, n) ==
  IF n >= 16 THEN << 0, a[1] \div (2 ^ (n - 16)) >>
  ELSE << a[1] \div (2 ^ n), (a[2] \div (2 ^ n)) + (a[1] % (2 ^ n)) * (2 ^ (16 - n)) >>

BigSigma0(x) == WXor(WXor(RotR(x, 2), RotR(x, 13)), RotR(x, 22))
BigSigma1(x) == WXor(WXor(RotR(x, 6), RotR(x, 11)), RotR(x, 25))
SmallSigma0(x) == WXor(WXor(RotR(x, 7), RotR(x, 18)), ShR(x, 3))
SmallSigma1(x) == WXor(WXor(RotR(x, 17), RotR(x, 19)), ShR(x, 10))
Ch(x, y, z) == WXor(WAnd(x, y), WAnd(WNot(x), z))
Maj(x, y, z) == WXor(WXor(WAnd(x, y), WAnd(x, z)), WAnd(y, z))

ShaK ==
  << <<17034, 12184>>, <<28983, 17553>>, <<46528, 64463>>, <<59829, 56229>>,
     <<14678, 49755>>, <<23025, 4593>>, <<37439, 33444>>, <<43804, 24277>>,
     <<55303, 43672>>, <<4739, 23297>>, <<9265, 34238>>, <<21772, 32195>>,
     <<29374, 23924>>, <<32990, 45566>>, <<39900, 1703>>, <<49563, 61812>>,
     <<58523, 27073>>, <<61374, 18310>>, <<4033, 40390>>, <<9228, 41420>>,
     <<11753, 11375>>, <<19060, 33962>>, <<23728, 43484>>, <<30457, 35034>>,
     <<38974, 20818>>, <<43057, 50797>>, <<45059, 10184>>, <<48985, 32711>>,
     <<50912, 3059>>, <<54695, 37191>>, <<1738, 25425>>, <<5161, 10599>>,
     <<10167, 2693>>, <<11803, 8504>>, <<19756, 28156>>, <<21304, 3347>>,
     <<25866, 29524>>, <<30314, 2747>>, <<33218, 51502>>, <<37490, 11397>>,
     <<41663, 59553>>, <<43034, 26187>>, <<49739, 35696>>, <<51052, 20899>>,
     <<53650, 59417>>, <<54937, 1572>>, <<62478, 13701>>, <<4202, 41072>>,
     <<6564, 49430>>, <<7735, 27656>>, <<10056, 30540>>, <<13488, 48309>>,
     <<14620, 3251>>, <<20184, 43594>>, <<23452, 51791>>, <<26670, 28659>>,
     <<29839, 33518>>, <<30885, 25455>>, <<33992, 30740>>, <<36039, 520>>,
     <<37054, 65530>>, <<42064, 27883>>, <<48889, 41975>>, <<50801, 30962>> >>

ShaH0 ==
  << <<27145, 58983>>, <<47975, 44677>>, <<15470, 62322>>, <<42319, 62778>>,
     <<20750, 21119>>, <<39685, 26764>>, <<8067, 55723>>, <<23520, 52505>> >>

Zeros(n) == [i \in 1..n |-> 0]

\* padding: 0x80, zeros up to 56 mod 64, the length in bits as 64 bits
ShaPad(bytes) ==
  LET n == Len(bytes)
      bits == n * 8
  IN bytes \o << 128 >> \o Zeros((119 - (n % 64)) % 64) \o
     << 0, 0, 0, 0, 0, (bits \div 65536) % 256, (bits \div 256) % 256, bits % 256 >>

BlockWord(m, b, j) ==
  LET o == 64 * (b - 1) + 4 * (j - 1)
  IN << m[o + 1] * 256 + m[o + 2], m[o + 3] * 256 + m[o + 4] >>

\* the one element of a set: Only({ e(x) : x \in { v } }) has TLC compute v
\* once, before e
Only(set) == CHOOSE x \in set : TRUE

\* the message schedule: the words lo..hi appended to w, by halves
RECURSIVE Schedule(_, _, _)
Schedule(w, lo, hi) ==
  IF lo = hi
  THEN Append(w, WAdd(WAdd(SmallSigma1(w[lo - 2]), w[lo - 7]),
                      WAdd(SmallSigma0(w[lo - 15]), w[lo - 16])))
  ELSE Only({ Schedule(half, ((lo + hi) \div 2) + 1, hi) :
              half \in { Schedule(w, lo, (lo + hi) \div 2) } })

Round(s, wt, kt) ==
  Only({ << WAdd(t[1], t[2]), s[1], s[2], s[3], WAdd(s[4], t[1]), s[5], s[6], s[7] >> :
         t \in { << WAdd(WAdd(WAdd(s[8], BigSigma1(s[5])), WAdd(Ch(s[5], s[6], s[7]), kt)), wt),
                    WAdd(BigSigma0(s[1]), Maj(s[1], s[2], s[3])) >> } })

\* the rounds lo..hi on the working variables s, halved in the same way
RECURSIVE Rounds(_, _, _, _)
Rounds(s, w, lo, hi) ==
  IF lo = hi THEN Round(s, w[lo], ShaK[lo])
  ELSE Only({ Rounds(half, w, ((lo + hi) \div 2) + 1, hi) :
              half \in { Rounds(s, w, lo, (lo + hi) \div 2) } })

Compress(h, m, b) ==
  Only({ << WAdd(h[1], s[1]), WAdd(h[2], s[2]), WAdd(h[3], s[3]), WAdd(h[4], s[4]),
            WAdd(h[5], s[5]), WAdd(h[6], s[6]), WAdd(h[7], s[7]), WAdd(h[8], s[8]) >> :
         s \in { Rounds(h, w, 1, 64) :
                 w \in { Schedule([j \in 1..16 |-> BlockWord(m, b, j)] \o << >>, 17, 64) } } })

RECURSIVE Blocks(_, _, _)
Blocks(h, m, b) ==
  IF 64 * b > Len(m) THEN h
  ELSE Only({ Blocks(nh, m, b + 1) : nh \in { Compress(h, m, b) } })

Sha256(bytes) == Only({ Blocks(ShaH0, m, 1) : m \in { ShaPad(bytes) } })

\* hexdigest(): 64 lower-case hex digits, most significant first
Hex16(x) ==
  << HexLower[(x \div 4096) + 1], HexLower[((x \div 256) % 16) + 1],
     HexLower[((x \div 16) % 16) + 1], HexLower[(x % 16) + 1] >>

HexWords(ws) == Flatten([i \in 1..Len(ws) |-> Hex16(ws[i][1]) \o Hex16(ws[i][2])])

HexDigest(bytes) == HexWords(Sha256(bytes))

\* ------------------------------------------------------------------------
\* EcpaySecurityHelper
\* ------------------------------------------------------------------------

None == << "none", 0 >>

S(s) == << "str", s >>

\* bool(v) is False
Falsy(v) ==
  \/ v[1] = "none"
  \/ (v[1] = "str" /\ v[2] = << >>)
  \/ (v[1] = "int" /\ v[2] = 0)
  \/ (v[1] = "bool" /\ ~v[2])

\* __init__ testing hash_key alone
HelperInitKeyOnly(hash_key, hash_iv) ==
  IF Falsy(hash_key)
  THEN << "raise", "ValueError" >>
  ELSE << "return", [hash_key |-> hash_key, hash_iv |-> hash_iv] >>

\* __init__: the outcome of the constructor
HelperInit(hash_key, hash_iv) ==
  IF Falsy(hash_key) \/ Falsy(hash_iv)
  THEN << "raise", "ValueError" >>
  ELSE << "return", [hash_key |-> hash_key, hash_iv |-> hash_iv] >>

NoHelper == [hash_key |-> None, hash_iv |-> None]

\* sorted(items, key=lambda x: x[0].lower()): a stable sort
SortsAfter(e, f) == StrLess(Lower(e[1]), Lower(f[1]))

\* the sorted list: the item at place i goes before the item at place j when
\* its key is the smaller one, or when neither key is and i < j
SortedParams(items) ==
  LET n == Len(items)
      Before(i, j) ==
        \/ SortsAfter(items[i], items[j])
        \/ (~SortsAfter(items[j], items[i]) /\ i < j)
      rank == [i \in 1..n |-> 1 + Cardinality({ j \in 1..n : Before(j, i) })] \o << >>
  IN [r \in 1..n |-> items[CHOOSE i \in 1..n : rank[i] = r]] \o << >>

\* "&".join([f"{k}={v}" for k, v in sorted_params])
ParamString(sorted_params) ==
  Join(<< 38 >>, [i \in 1..Len(sorted_params) |->
                    sorted_params[i][1] \o << 61 >> \o Format(sorted_params[i][2])])

\* f"HashKey={self.hash_key}&{param_string}&HashIV={self.hash_iv}"
FullString(self, param_string) ==
  << 72, 97, 115, 104, 75, 101, 121, 61 >> \o Format(self.hash_key) \o << 38 >>
    \o param_string \o << 38, 72, 97, 115, 104, 73, 86, 61 >> \o Format(self.hash_iv)

\* the encoding without the lower-casing
EncodedStringAsEncoded(full_string) == ecpay_url_encode(full_string)

\* ecpay_url_encode(full_string).lower()
EncodedString(full_string) == Lower(ecpay_url_encode(full_string))

\* the signature computed over every item, the CheckMacValue one included
calculate_keeping_mac(self, params) ==
  LET sorted_params == SortedParams(params)
      full_string == FullString(self, ParamString(sorted_params))
      encoded_string == EncodedString(full_string)
  IN S(Upper(HexDigest(Utf8Bytes(encoded_string))))

\* the signature left as hexdigest() gives it
calculate_without_upper(self, params) ==
  LET params_copy == DictDel(params, CheckMacValueKey)
      sorted_params == SortedParams(params_copy)
      full_string == FullString(self, ParamString(sorted_params))
      encoded_string == EncodedString(full_string)
  IN S(HexDigest(Utf8Bytes(encoded_string)))

calculate_check_mac_value(self, params) ==
  LET params_copy == DictDel(params, CheckMacValueKey)
      sorted_params == SortedParams(params_copy)
      full_string == FullString(self, ParamString(sorted_params))
      encoded_string == EncodedString(full_string)
  IN S(Upper(HexDigest(Utf8Bytes(encoded_string))))

\* hmac.compare_digest(a, b): str arguments must be ASCII, any other pairing
\* of types is a TypeError
compare_digest(a, b) ==
  IF a[1] /= "str" \/ b[1] /= "str" THEN << "raise", "TypeError" >>
  ELSE IF ~IsAscii(a[2]) \/ ~IsAscii(b[2]) THEN << "raise", "TypeError" >>
  ELSE << "return", a[2] = b[2] >>

\* the verifier comparing the calculated signature with itself
verify_comparing_calculated(self, received_params) ==
  IF ~DictHas(received_params, CheckMacValueKey) THEN << "return", FALSE >>
  ELSE LET calculated_mac == calculate_check_mac_value(self, received_params)
       IN compare_digest(calculated_mac, calculated_mac)

\* the verifier reading received_params["CheckMacValue"] without the test
verify_without_key_test(self, received_params) ==
  IF ~DictHas(received_params, CheckMacValueKey) THEN << "raise", "KeyError" >>
  ELSE LET received_mac == DictGet(received_params, CheckMacValueKey)
           calculated_mac == calculate_check_mac_value(self, received_params)
       IN compare_digest(received_mac, calculated_mac)

\* the verifier upper-casing the received signature before the comparison
verify_normalising_case(self, received_params) ==
  IF ~DictHas(received_params, CheckMacValueKey) THEN << "return", FALSE >>
  ELSE LET received_mac == DictGet(received_params, CheckMacValueKey)
           calculated_mac == calculate_check_mac_value(self, received_params)
       IN compare_digest(IF received_mac[1] = "str" THEN S(Upper(received_mac[2])) ELSE received_mac,
                         calculated_mac)

verify_check_mac_value(self, received_params) ==
  IF ~DictHas(received_params, CheckMacValueKey) THEN << "return", FALSE >>
  ELSE LET received_mac == DictGet(received_params, CheckMacValueKey)
           calculated_mac == calculate_check_mac_value(self, received_params)
       IN compare_digest(received_mac, calculated_mac)

\* ------------------------------------------------------------------------
\* The mappings the calls are made on
\* ------------------------------------------------------------------------

MaxParams == 2

Keys == { << 97 >>, << 65 >>, << 66 >> }            \* "a", "A", "B"

Values == { S(<< 120 >>), << "int", 1 >> }           \* "x", 1

RECURSIVE DictsOfLen(_)
DictsOfLen(n) ==
  IF n = 0 THEN { << >> }
  ELSE { Append(d, << k, v >>) : d \in DictsOfLen(n - 1), k \in Keys, v \in Values }

UniqueKeys(d) == \A i, j \in 1..Len(d) : d[i][1] = d[j][1] => i = j

\* every dict of at most MaxParams items, in every insertion order
ParamSets == UNION { { d \in DictsOfLen(n) : UniqueKeys(d) } : n \in 0..MaxParams }

\* the same items inserted in another order
Reorderings(d) ==
  LET n == Len(d)
      perms == { p \in [1..n -> 1..n] : \A i, j \in 1..n : p[i] = p[j] => i = j }
  IN { [i \in 1..n |-> d[p[i]]] : p \in perms }

IsLetter(c) == (c >= 65 /\ c <= 90) \/ (c >= 97 /\ c <= 122)

SwapCase(c) ==
  IF c >= 65 /\ c <= 90 THEN c + 32 ELSE IF c >= 97 /\ c <= 122 THEN c - 32 ELSE c

ReplaceAt(s, j, c) == [i \in 1..Len(s) |-> IF i = j THEN c ELSE s[i]]

SetValue(d, i, v) == [j \in 1..Len(d) |-> IF j = i THEN << d[j][1], v >> ELSE d[j]]

\* one letter of one str value in the other case
CaseVariants(d) ==
  UNION { { SetValue(d, i, S(ReplaceAt(d[i][2][2], j, SwapCase(d[i][2][2][j]))))
              : j \in { j \in 1..Len(d[i][2][2]) : IsLetter(d[i][2][2][j]) } }
          : i \in { i \in 1..Len(d) : d[i][2][1] = "str" } }

RECURSIVE ParseInt(_)
ParseInt(s) == IF s = << >> THEN 0 ELSE 10 * ParseInt(SubSeq(s, 1, Len(s) - 1)) + (s[Len(s)] - 48)

\* the value whose text is t, of the type of v where t is the text of such a value
Retyped(v, t) ==
  IF v[1] = "int" /\ (\A i \in 1..Len(t) : t[i] >= 48 /\ t[i] <= 57) /\ IntStr(ParseInt(t)) = t
  THEN << "int", ParseInt(t) >>
  ELSE S(t)

\* one character of the text of one value replaced by another character
Mutations(d) ==
  UNION { UNION { { SetValue(d, i, Retyped(d[i][2], ReplaceAt(Format(d[i][2]), j, c)))
                      : c \in { SwapCase(Format(d[i][2])[j]), Format(d[i][2])[j] + 1 }
                                \ { Format(d[i][2])[j] } }
                  : j \in 1..Len(Format(d[i][2])) }
          : i \in 1..Len(d) }

\* a CheckMacValue that is not the signature: too short, not hexadecimal,
\* not ASCII, not a str
ForgedMacs ==
  { S(<< 73, 78, 86, 65, 76, 73, 68, 77, 65, 67, 49, 50, 51 >>),       \* "INVALIDMAC123"
    S([i \in 1..64 |-> 71]),                                            \* "GG...G"
    S(<< 233 >>),                                                       \* "é"
    << "int", 0 >>,
    None }

\* ------------------------------------------------------------------------
\* State
\* ------------------------------------------------------------------------

VARIABLES
  helper,        \* the EcpaySecurityHelper a caller built: its hash_key and hash_iv
  init_args,     \* the arguments of the last constructor call
  init_result,   \* "return" or the exception the last constructor call raised
  pc,            \* the caller: "new", "ready" (helper built), "signed", "verified", "done"
  params,        \* the mapping of the first calculate_check_mac_value call
  mac,           \* what that call returned
  params2,       \* the mapping of the second calculate_check_mac_value call
  mac2,          \* what that call returned
  received,      \* the mapping of the verify_check_mac_value call
  verdict,       \* the outcome of that call
  config,        \* GatewayFactory.config
  security_helper_cache,   \* GatewayFactory._security_helper_cache
  dao_cache,     \* GatewayFactory._dao_cache
  adapter_cache, \* GatewayFactory._adapter_cache
  created,       \* how many helpers, DAOs and adapters the factory has constructed
  call,          \* the last factory call: its method and gateway name
  outcome,       \* the outcome of the last factory call
  dao_pc,        \* the caller of an EcpayDAO: "start", "built", "called_back", "sent"
  dao_call,      \* the last call on the DAO: its method and the mapping passed
  dao_data,      \* that mapping as the call left it
  helper_calls,  \* the calls the DAO made on its security helper during that call
  posted,        \* the requests it posted during that call
  gateway_reply, \* what the gateway answered
  dao_outcome,   \* the outcome of the call
  adapter_dao,   \* the DAO an EcpayAdapter holds: what its methods answer
  adapter_call,  \* the last call on the adapter: its method and arguments
  dao_requests,  \* the calls the adapter made on its DAO during that call
  adapter_outcome, \* how the adapter's method ended
  shared_helper, \* the EcpaySecurityHelper several threads share
  thread_pc,     \* where each thread is in its call: "idle", "called", "key_read", "iv_read", "done"
  thread_call,   \* the call each thread makes: its method and argument
  thread_local,  \* the locals of each thread: the hash_key and hash_iv it has read
  thread_result, \* what each thread's call returned
  step_call,     \* the call followed line by line: its method and the mapping passed
  arg_now,       \* that mapping as it is now
  step_line,     \* the last line done: "called", "received", "copied", ..., "returned"
  step_local,    \* the locals of the call
  step_result,   \* how the call ended
  step_history,  \* the calls the same caller made before, with their results
  encode_text,   \* the argument of the ecpay_url_encode call
  encode_result  \* what that call returned

helper_vars == << helper, init_args, init_result >>
sign_vars == << pc, params, mac, params2, mac2, received, verdict >>
factory_vars == << config, security_helper_cache, dao_cache, adapter_cache, created, call, outcome >>
dao_vars == << dao_pc, dao_call, dao_data, helper_calls, posted, gateway_reply, dao_outcome >>
adapter_vars == << adapter_dao, adapter_call, dao_requests, adapter_outcome >>
thread_vars == << shared_helper, thread_pc, thread_call, thread_local, thread_result >>
step_vars == << step_call, arg_now, step_line, step_local, step_result, step_history >>
encode_vars == << encode_text, encode_result >>
vars == << helper, init_args, init_result, pc, params, mac, params2, mac2, received, verdict,
           config, security_helper_cache, dao_cache, adapter_cache, created, call, outcome,
           dao_pc, dao_call, dao_data, helper_calls, posted, gateway_reply, dao_outcome,
           adapter_dao, adapter_call, dao_requests, adapter_outcome,
           shared_helper, thread_pc, thread_call, thread_local, thread_result,
           step_call, arg_now, step_line, step_local, step_result, step_history,
           encode_text, encode_result >>

NoCall == << "none", "none" >>

\* ------------------------------------------------------------------------
\* Calls on one helper
\* ------------------------------------------------------------------------

Absent == << "absent", 0 >>

SecretKeys == { None, S(<< >>), S(<< 107 >>) }       \* None, "", "k"
SecretIVs == { None, S(<< >>), S(<< 118 >>) }        \* None, "", "v"

\* EcpaySecurityHelper(hash_key, hash_iv)
Construct(hash_key, hash_iv) ==
  /\ pc = "new"
  /\ init_args' = << hash_key, hash_iv >>
  /\ LET r == HelperInit(hash_key, hash_iv)
     IN IF r[1] = "raise"
        THEN /\ init_result' = r[2]
             /\ UNCHANGED << helper, pc >>
        ELSE /\ init_result' = "return"
             /\ helper' = r[2]
             /\ pc' = "ready"
  /\ UNCHANGED << params, mac, params2, mac2, received, verdict >>
  /\ UNCHANGED factory_vars
  /\ UNCHANGED dao_vars
  /\ UNCHANGED adapter_vars
  /\ UNCHANGED thread_vars
  /\ UNCHANGED step_vars
  /\ UNCHANGED encode_vars

\* a first call that also rewrites a field of the helper
CalculateRewritingKey ==
  /\ pc = "ready"
  /\ \E p \in ParamSets :
       /\ params' = p
       /\ mac' = calculate_check_mac_value(helper, p)
  /\ helper' = [helper EXCEPT !.hash_key = S(<< 72, 97, 115, 104, 75, 101, 121, 61 >> \o Format(@))]
  /\ pc' = "signed"
  /\ UNCHANGED << params2, mac2, received, verdict >>
  /\ UNCHANGED << init_args, init_result >>
  /\ UNCHANGED factory_vars
  /\ UNCHANGED dao_vars
  /\ UNCHANGED adapter_vars
  /\ UNCHANGED thread_vars
  /\ UNCHANGED step_vars
  /\ UNCHANGED encode_vars

\* helper.calculate_check_mac_value(p), the first call
Calculate ==
  /\ pc = "ready"
  /\ \E p \in ParamSets :
       /\ params' = p
       /\ mac' = calculate_check_mac_value(helper, p)
  /\ pc' = "signed"
  /\ UNCHANGED << params2, mac2, received, verdict >>
  /\ UNCHANGED helper_vars
  /\ UNCHANGED factory_vars
  /\ UNCHANGED dao_vars
  /\ UNCHANGED adapter_vars
  /\ UNCHANGED thread_vars
  /\ UNCHANGED step_vars
  /\ UNCHANGED encode_vars

\* the mappings of a second call: the same one and, when no other call came
\* in between, the same items in another order or one value in another
\* letter case
SecondParams ==
  IF pc = "verified" THEN { params }
  ELSE { params } \cup Reorderings(params) \cup CaseVariants(params)

\* helper.calculate_check_mac_value(p), a second call on the same helper
CalculateAgain ==
  /\ pc \in { "signed", "verified" }
  /\ \E p \in SecondParams :
       /\ params2' = p
       /\ mac2' = calculate_check_mac_value(helper, p)
  /\ pc' = "done"
  /\ UNCHANGED << params, mac, received, verdict >>
  /\ UNCHANGED helper_vars
  /\ UNCHANGED factory_vars
  /\ UNCHANGED dao_vars
  /\ UNCHANGED adapter_vars
  /\ UNCHANGED thread_vars
  /\ UNCHANGED step_vars
  /\ UNCHANGED encode_vars

\* the mappings that reach the verifier: the signed one, one without the
\* signature, one with the signature in lower case, one with a forged
\* signature, one with a value changed in one character
Signed(p, m) == DictSet(p, CheckMacValueKey, m)

ReceivedParams ==
  { Signed(params, mac), params, Signed(params, S(Lower(mac[2]))) }
    \cup { Signed(params, f) : f \in ForgedMacs }
    \cup { Signed(q, mac) : q \in Mutations(params) }

\* helper.verify_check_mac_value(r)
Verify ==
  /\ pc = "signed"
  /\ \E r \in ReceivedParams :
       /\ received' = r
       /\ verdict' = verify_check_mac_value(helper, r)
  /\ pc' = "verified"
  /\ UNCHANGED << params, mac, params2, mac2 >>
  /\ UNCHANGED helper_vars
  /\ UNCHANGED factory_vars
  /\ UNCHANGED dao_vars
  /\ UNCHANGED adapter_vars
  /\ UNCHANGED thread_vars
  /\ UNCHANGED step_vars
  /\ UNCHANGED encode_vars

\* ------------------------------------------------------------------------
\* GatewayFactory
\* ------------------------------------------------------------------------

GatewayNames == { "ecpay", "tappay", "missingpay" }

\* a gateway's entry of the config; Absent marks a key the dict does not have
NoConfig ==
  [merchant_id |-> Absent, hash_key |-> Absent, hash_iv |-> Absent, partner_key |-> Absent,
   is_sandbox |-> Absent, timeout |-> Absent, base_url |-> Absent]

\* dict.get(k, default)
Get(d, k, default) == IF d[k] = Absent THEN default ELSE d[k]

UrlMap ==
  [tappay |-> [sandbox |-> << "url", "https://sandbox.tappaysdk.com/tpc" >>,
               production |-> << "url", "https://prod.tappaysdk.com/tpc" >>],
   ecpay |-> [sandbox |-> << "url", "https://payment-stage.ecpay.com.tw" >>,
              production |-> << "url", "https://payment.ecpay.com.tw" >>]]

DefaultTimeout == 30

\* _get_gateway_specific_config without the test of the gateway's entry
GatewaySpecificConfigOfAnyEntry(cfg, gateway_name) ==
  LET gw_config == cfg[gateway_name]
      is_sandbox == Get(gw_config, "is_sandbox", << "bool", TRUE >>)
      env == IF is_sandbox = << "bool", FALSE >> THEN "production" ELSE "sandbox"
  IN IF gateway_name \notin DOMAIN UrlMap THEN << "raise", "ValueError" >>
     ELSE << "return", [gw_config EXCEPT !.base_url = UrlMap[gateway_name][env]] >>

\* _get_gateway_specific_config: the outcome
GatewaySpecificConfig(cfg, gateway_name) ==
  LET gw_config == cfg[gateway_name]
      is_sandbox == Get(gw_config, "is_sandbox", << "bool", TRUE >>)
      env == IF is_sandbox = << "bool", FALSE >> THEN "production" ELSE "sandbox"
  IN IF gw_config = NoConfig THEN << "raise", "ValueError" >>
     ELSE IF gateway_name \notin DOMAIN UrlMap THEN << "raise", "ValueError" >>
     ELSE << "return",
             [gw_config EXCEPT
                !.base_url = UrlMap[gateway_name][env],
                !.timeout = IF @ = Absent
                            THEN Get(cfg.sdk_settings, "default_timeout", << "int", DefaultTimeout >>)
                            ELSE @] >>

\* the three caches and the count of constructed objects, as a call passes
\* them on; out is the outcome of the call
Factory == [sh |-> security_helper_cache, dao |-> dao_cache, ad |-> adapter_cache, n |-> created]

\* None where an object is expected
NoObject == [id |-> 0, cls |-> "NoneType"]

\* _get_security_helper
GetSecurityHelper(f, gateway_name) ==
  IF gateway_name \in DOMAIN f.sh THEN [f |-> f, out |-> << "return", f.sh[gateway_name] >>]
  ELSE IF gateway_name /= "ecpay"
       THEN [f |-> [f EXCEPT !.sh = (gateway_name :> NoObject) @@ @], out |-> << "return", NoObject >>]
       ELSE LET cfg == GatewaySpecificConfig(config, gateway_name)
                hc == IF cfg[1] = "raise" THEN cfg
                      ELSE HelperInit(Get(cfg[2], "hash_key", S(<< >>)),
                                      Get(cfg[2], "hash_iv", S(<< >>)))
                obj == [id |-> f.n.helper + 1, cls |-> "EcpaySecurityHelper",
                        hash_key |-> hc[2].hash_key, hash_iv |-> hc[2].hash_iv]
            IN IF hc[1] = "raise" THEN [f |-> f, out |-> hc]
               ELSE [f |-> [f EXCEPT !.sh = (gateway_name :> obj) @@ @, !.n.helper = @ + 1],
                     out |-> << "return", obj >>]

\* EcpayDAO.__init__: the exception it raises, or "return"
EcpayDAOInit(cfg, security_helper) ==
  IF Falsy(Get(cfg, "merchant_id", None)) THEN "AuthenticationError"
  ELSE IF Falsy(Get(cfg, "base_url", None)) THEN "ValueError"
  ELSE IF security_helper.cls /= "EcpaySecurityHelper" THEN "TypeError"
  ELSE "return"

\* TappayDAO.__init__: the exception it raises, or "return"
TappayDAOInit(cfg) ==
  IF Falsy(Get(cfg, "partner_key", None)) THEN "AuthenticationError"
  ELSE IF Falsy(Get(cfg, "base_url", None)) THEN "ValueError"
  ELSE "return"

\* _get_dao that builds a DAO on every call
GetDaoUncached(f, gateway_name) ==
  LET cfg == GatewaySpecificConfig(config, gateway_name)
      obj == [id |-> f.n.dao + 1, cls |-> "DAO", config |-> cfg[2], security_helper |-> NoObject]
  IN IF cfg[1] = "raise" THEN [f |-> f, out |-> cfg]
     ELSE [f |-> [f EXCEPT !.dao = (gateway_name :> obj) @@ @, !.n.dao = @ + 1],
           out |-> << "return", obj >>]

\* _get_dao
GetDao(f, gateway_name) ==
  IF gateway_name \in DOMAIN f.dao THEN [f |-> f, out |-> << "return", f.dao[gateway_name] >>]
  ELSE LET cfg == GatewaySpecificConfig(config, gateway_name)
       IN IF cfg[1] = "raise" THEN [f |-> f, out |-> cfg]
          ELSE IF gateway_name = "ecpay"
          THEN LET sh == GetSecurityHelper(f, "ecpay")
                   init == EcpayDAOInit(cfg[2], sh.out[2])
                   obj == [id |-> sh.f.n.dao + 1, cls |-> "EcpayDAO", config |-> cfg[2],
                           security_helper |-> sh.out[2]]
               IN IF sh.out[1] = "raise" THEN sh
                  ELSE IF init /= "return" THEN [f |-> sh.f, out |-> << "raise", init >>]
                  ELSE [f |-> [sh.f EXCEPT !.dao = (gateway_name :> obj) @@ @, !.n.dao = @ + 1],
                        out |-> << "return", obj >>]
          ELSE LET init == TappayDAOInit(cfg[2])
                   obj == [id |-> f.n.dao + 1, cls |-> "TappayDAO", config |-> cfg[2],
                           security_helper |-> NoObject]
               IN IF init /= "return" THEN [f |-> f, out |-> << "raise", init >>]
                  ELSE [f |-> [f EXCEPT !.dao = (gateway_name :> obj) @@ @, !.n.dao = @ + 1],
                        out |-> << "return", obj >>]

\* get_adapter that builds an adapter on every call
GetAdapterCallUncached(f, gateway_name) ==
  LET dao == GetDao(f, gateway_name)
      obj == [id |-> dao.f.n.adapter + 1, cls |-> "Adapter", dao |-> dao.out[2]]
  IN IF dao.out[1] = "raise" THEN dao
     ELSE [f |-> [dao.f EXCEPT !.ad = (gateway_name :> obj) @@ @, !.n.adapter = @ + 1],
           out |-> << "return", obj >>]

\* get_adapter
GetAdapterCall(f, gateway_name) ==
  IF gateway_name \in DOMAIN f.ad THEN [f |-> f, out |-> << "return", f.ad[gateway_name] >>]
  ELSE LET dao == GetDao(f, gateway_name)
           obj == [id |-> dao.f.n.adapter + 1,
                   cls |-> IF gateway_name = "ecpay" THEN "EcpayAdapter" ELSE "TappayAdapter",
                   dao |-> dao.out[2]]
       IN IF dao.out[1] = "raise" THEN dao
          ELSE [f |-> [dao.f EXCEPT !.ad = (gateway_name :> obj) @@ @, !.n.adapter = @ + 1],
                out |-> << "return", obj >>]

\* get_callback_handler: ImportError, ValueError and TypeError become the
\* SDK's NotImplementedError
GetCallbackHandlerCall(f, gateway_name) ==
  LET dao == GetDao(f, gateway_name)
  IN IF dao.out[1] = "raise" /\ dao.out[2] \in { "ImportError", "ValueError", "TypeError" }
     THEN [f |-> dao.f, out |-> << "raise", "NotImplementedError" >>]
     ELSE dao

Returned(r, method, gateway_name) ==
  /\ security_helper_cache' = r.f.sh
  /\ dao_cache' = r.f.dao
  /\ adapter_cache' = r.f.ad
  /\ created' = r.f.n
  /\ call' = << method, gateway_name >>
  /\ outcome' = r.out
  /\ UNCHANGED config
  /\ UNCHANGED helper_vars
  /\ UNCHANGED sign_vars
  /\ UNCHANGED dao_vars
  /\ UNCHANGED adapter_vars
  /\ UNCHANGED thread_vars
  /\ UNCHANGED step_vars
  /\ UNCHANGED encode_vars

GetAdapter(gateway_name) ==
  Returned(GetAdapterCall(Factory, gateway_name), "get_adapter", gateway_name)

\* get_transaction_adapter: both adapter classes are TransactionAdapters
GetTransactionAdapter(gateway_name) ==
  Returned(GetAdapterCall(Factory, gateway_name), "get_transaction_adapter", gateway_name)

GetCallbackHandler(gateway_name) ==
  Returned(GetCallbackHandlerCall(Factory, gateway_name), "get_callback_handler", gateway_name)

\* ------------------------------------------------------------------------
\* str and urllib.parse.unquote_plus, as EcpayDAO uses them
\* ------------------------------------------------------------------------

\* sub in s
Contains(s, sub) ==
  \E i \in 0..(Len(s) - Len(sub)) : SubSeq(s, i + 1, i + Len(sub)) = sub

\* s.startswith(prefix)
StartsWith(s, prefix) == Len(prefix) =< Len(s) /\ SubSeq(s, 1, Len(prefix)) = prefix

\* the places of the separator c in s, in order
Places(s, c) == SelectSeq([i \in 1..Len(s) |-> i], LAMBDA i : s[i] = c)

\* s.split(c) for a separator of one character
Split(s, c) ==
  LET at == Places(s, c)
  IN [n \in 1..(Len(at) + 1) |->
        SubSeq(s, IF n = 1 THEN 1 ELSE at[n - 1] + 1,
                  IF n = Len(at) + 1 THEN Len(s) ELSE at[n] - 1)]

\* item.split("=", 1) of an item that holds "="
SplitFirst(item, c) ==
  LET at == Places(item, c)[1]
  IN << SubSeq(item, 1, at - 1), SubSeq(item, at + 1, Len(item)) >>

\* the value of a hexadecimal digit, -1 for any other character
HexVal(c) ==
  IF c >= 48 /\ c =< 57 THEN c - 48
  ELSE IF c >= 65 /\ c =< 70 THEN c - 55
  ELSE IF c >= 97 /\ c =< 102 THEN c - 87
  ELSE 0 - 1

\* "%XX" starts at place i of s
EscapeAt(s, i) ==
  /\ i >= 1
  /\ i + 2 =< Len(s)
  /\ s[i] = 37
  /\ HexVal(s[i + 1]) >= 0
  /\ HexVal(s[i + 2]) >= 0

\* unquote_to_bytes: an escape gives its byte, any other character its UTF-8
\* bytes
UnquoteToBytes(s) ==
  Flatten([i \in 1..Len(s) |->
             IF EscapeAt(s, i) THEN << 16 * HexVal(s[i + 1]) + HexVal(s[i + 2]) >>
             ELSE IF EscapeAt(s, i - 1) \/ EscapeAt(s, i - 2) THEN << >>
             ELSE Utf8(s[i])])

IsContinuation(b) == b >= 128 /\ b < 192

\* the continuation bytes a lead byte asks for
Need(b) ==
  IF b >= 194 /\ b < 224 THEN 1
  ELSE IF b >= 224 /\ b < 240 THEN 2
  ELSE IF b >= 240 /\ b < 245 THEN 3
  ELSE 0

\* the second byte a lead byte accepts (no overlong form, no surrogate,
\* nothing beyond U+10FFFF)
SecondOk(lead, b) ==
  /\ IsContinuation(b)
  /\ lead = 224 => b >= 160
  /\ lead = 237 => b < 160
  /\ lead = 240 => b >= 144
  /\ lead = 244 => b < 144

\* the continuation bytes that follow the lead byte at place p and belong to it
Taken(bs, p) ==
  LET n == Need(bs[p])
      ok(k) == /\ p + k =< Len(bs)
               /\ IF k = 1 THEN SecondOk(bs[p], bs[p + 1]) ELSE IsContinuation(bs[p + k])
  IN IF n >= 1 /\ ok(1)
     THEN IF n >= 2 /\ ok(2)
          THEN IF n >= 3 /\ ok(3) THEN 3 ELSE 2
          ELSE 1
     ELSE 0

\* the byte at place j belongs to a lead byte before it
Absorbed(bs, j) ==
  \E k \in 1..3 :
    /\ j - k >= 1
    /\ ~IsContinuation(bs[j - k])
    /\ \A m \in 1..(k - 1) : IsContinuation(bs[j - m])
    /\ Taken(bs, j - k) >= k

ReplacementCharacter == 65533

\* bytes.decode("utf-8", "replace")
Utf8Decode(bs) ==
  Flatten([p \in 1..Len(bs) |->
             IF Absorbed(bs, p) THEN << >>
             ELSE IF bs[p] < 128 THEN << bs[p] >>
             ELSE IF Need(bs[p]) = 0 \/ Taken(bs, p) < Need(bs[p]) THEN << ReplacementCharacter >>
             ELSE IF Need(bs[p]) = 1 THEN << (bs[p] - 192) * 64 + (bs[p + 1] - 128) >>
             ELSE IF Need(bs[p]) = 2
                  THEN << (bs[p] - 224) * 4096 + (bs[p + 1] - 128) * 64 + (bs[p + 2] - 128) >>
             ELSE << (bs[p] - 240) * 262144 + (bs[p + 1] - 128) * 4096
                       + (bs[p + 2] - 128) * 64 + (bs[p + 3] - 128) >>])

\* unquote_plus(s): "+" is a space, "%XX" a byte of UTF-8 text
unquote_plus(s) ==
  Utf8Decode(UnquoteToBytes([i \in 1..Len(s) |-> IF s[i] = 43 THEN 32 ELSE s[i]]))

\* dict(item.split("=", 1) for item in decoded_text.split("&") if "=" in item)
RECURSIVE DictOf(_, _)
DictOf(items, n) ==
  IF n = 0 THEN << >>
  ELSE LET kv == SplitFirst(items[n], 61)
       IN DictSet(DictOf(items, n - 1), kv[1], S(kv[2]))

ParseResponse(response_text) ==
  LET items == SelectSeq(Split(unquote_plus(response_text), 38), LAMBDA item : Places(item, 61) /= << >>)
  IN DictOf(items, Len(items))

\* ------------------------------------------------------------------------
\* EcpayDAO
\* ------------------------------------------------------------------------

MerchantIDKey == << 77, 101, 114, 99, 104, 97, 110, 116, 73, 68 >>   \* "MerchantID"
TimeStampKey == << 84, 105, 109, 101, 83, 116, 97, 109, 112 >>   \* "TimeStamp"
\* "MerchantTradeNo"
MerchantTradeNoKey ==
  << 77, 101, 114, 99, 104, 97, 110, 116, 84, 114, 97, 100, 101, 78, 111 >>
\* "MerchantTradeDate"
MerchantTradeDateKey ==
  << 77, 101, 114, 99, 104, 97, 110, 116, 84, 114, 97, 100, 101, 68, 97, 116, 101 >>
PaymentTypeKey == << 80, 97, 121, 109, 101, 110, 116, 84, 121, 112, 101 >>   \* "PaymentType"
TotalAmountKey == << 84, 111, 116, 97, 108, 65, 109, 111, 117, 110, 116 >>   \* "TotalAmount"
TradeDescKey == << 84, 114, 97, 100, 101, 68, 101, 115, 99 >>   \* "TradeDesc"
ItemNameKey == << 73, 116, 101, 109, 78, 97, 109, 101 >>   \* "ItemName"
ReturnURLKey == << 82, 101, 116, 117, 114, 110, 85, 82, 76 >>   \* "ReturnURL"
\* "ChoosePayment"
ChoosePaymentKey ==
  << 67, 104, 111, 111, 115, 101, 80, 97, 121, 109, 101, 110, 116 >>
EncryptTypeKey == << 69, 110, 99, 114, 121, 112, 116, 84, 121, 112, 101 >>   \* "EncryptType"
TradeNoKey == << 84, 114, 97, 100, 101, 78, 111 >>   \* "TradeNo"
ActionKey == << 65, 99, 116, 105, 111, 110 >>   \* "Action"
PlatformIDKey == << 80, 108, 97, 116, 102, 111, 114, 109, 73, 68 >>   \* "PlatformID"
RtnCodeKey == << 82, 116, 110, 67, 111, 100, 101 >>   \* "RtnCode"
RtnMsgKey == << 82, 116, 110, 77, 115, 103 >>   \* "RtnMsg"
TradeStatusKey == << 84, 114, 97, 100, 101, 83, 116, 97, 116, 117, 115 >>   \* "TradeStatus"

\* an exception of core.exceptions: PaymentGatewayBaseError.__init__
PaymentGatewayBaseError(cls, message, code, raw_response) ==
  [cls |-> cls, message |-> message, code |-> code, raw_response |-> raw_response]

\* a mapping where None may stand instead
Dict(d) == << "dict", d >>

\* all(k in params for k in required)
HasAll(d, required) == \A i \in 1..Len(required) : DictHas(d, required[i])

\* dict.get(k, default) on a mapping
GetOr(d, k, default) == IF DictHas(d, k) THEN DictGet(d, k) ELSE default

\* the EcpayDAO of the tests, with the helper of its configuration
TestDao ==
  [merchant_id |-> S(<< 50, 48, 48, 48, 49, 51, 50 >>),   \* "2000132"
   base_url |-> << 104, 116, 116, 112, 115, 58, 47, 47, 112, 97, 121, 109, 101, 110, 116, 45, 115, 116, 97, 103, 101, 46, 101, 99, 112, 97, 121, 46, 99, 111, 109, 46, 116, 119 >>,   \* "https://payment-stage.ecpay.com.tw"
   timeout |-> 10,
   security_helper |-> [hash_key |-> S(<< 53, 50, 57, 52, 121, 48, 54, 74, 98, 73, 83, 112, 77, 53, 120, 57 >>), hash_iv |-> S(<< 118, 55, 55, 104, 111, 75, 71, 113, 52, 107, 87, 120, 78, 78, 73, 83 >>)]]   \* "5294y06JbISpM5x9", "v77hoKGq4kWxNNIS"

CheckoutRequired ==
  << MerchantTradeNoKey, MerchantTradeDateKey, PaymentTypeKey, TotalAmountKey, TradeDescKey,
     ItemNameKey, ReturnURLKey, ChoosePaymentKey, EncryptTypeKey >>

\* "Missing required ECPay params: ['MerchantTradeNo', 'MerchantTradeDate', 'PaymentType', 'TotalAmount', 'TradeDesc', 'ItemName', 'ReturnURL', 'ChoosePayment', 'EncryptType']"
MissingCheckoutParams ==
  << 77, 105, 115, 115, 105, 110, 103, 32, 114, 101, 113, 117, 105, 114, 101, 100, 32, 69, 67,
     80, 97, 121, 32, 112, 97, 114, 97, 109, 115, 58, 32, 91, 39, 77, 101, 114, 99, 104, 97,
     110, 116, 84, 114, 97, 100, 101, 78, 111, 39, 44, 32, 39, 77, 101, 114, 99, 104, 97, 110,
     116, 84, 114, 97, 100, 101, 68, 97, 116, 101, 39, 44, 32, 39, 80, 97, 121, 109, 101, 110,
     116, 84, 121, 112, 101, 39, 44, 32, 39, 84, 111, 116, 97, 108, 65, 109, 111, 117, 110,
     116, 39, 44, 32, 39, 84, 114, 97, 100, 101, 68, 101, 115, 99, 39, 44, 32, 39, 73, 116,
     101, 109, 78, 97, 109, 101, 39, 44, 32, 39, 82, 101, 116, 117, 114, 110, 85, 82, 76, 39,
     44, 32, 39, 67, 104, 111, 111, 115, 101, 80, 97, 121, 109, 101, 110, 116, 39, 44, 32, 39,
     69, 110, 99, 114, 121, 112, 116, 84, 121, 112, 101, 39, 93 >>

\* what a call of a DAO method leaves behind: its outcome, the caller's
\* mapping, the calls made on the security helper and the requests posted
Done(out, data, calls, posts) == [out |-> out, data |-> data, calls |-> calls, posts |-> posts]

\* build_checkout_form_data that signs before it adds MerchantID
build_signing_first(self, the_params) ==
  LET check_mac_value == calculate_check_mac_value(self.security_helper, the_params)
      with_id == IF DictHas(the_params, MerchantIDKey) THEN the_params
                 ELSE DictSet(the_params, MerchantIDKey, self.merchant_id)
      form == DictSet(with_id, CheckMacValueKey, check_mac_value)
  IN IF ~HasAll(the_params, CheckoutRequired)
     THEN Done(<< "raise", PaymentGatewayBaseError("ValidationError", MissingCheckoutParams, None, None) >>,
               the_params, << >>, << >>)
     ELSE Done(<< "return", form >>, form, << << "calculate_check_mac_value", the_params >> >>, << >>)

\* build_checkout_form_data that keeps a CheckMacValue the caller passed
build_keeping_mac(self, the_params) ==
  LET with_id == IF DictHas(the_params, MerchantIDKey) THEN the_params
                 ELSE DictSet(the_params, MerchantIDKey, self.merchant_id)
      check_mac_value == calculate_check_mac_value(self.security_helper, with_id)
      form == IF DictHas(with_id, CheckMacValueKey) THEN with_id
              ELSE DictSet(with_id, CheckMacValueKey, check_mac_value)
  IN IF ~HasAll(the_params, CheckoutRequired)
     THEN Done(<< "raise", PaymentGatewayBaseError("ValidationError", MissingCheckoutParams, None, None) >>,
               the_params, << >>, << >>)
     ELSE Done(<< "return", form >>, form, << << "calculate_check_mac_value", with_id >> >>, << >>)

\* build_checkout_form_data: params is changed in place and returned
build_checkout_form_data(self, the_params) ==
  LET with_id == IF DictHas(the_params, MerchantIDKey) THEN the_params
                 ELSE DictSet(the_params, MerchantIDKey, self.merchant_id)
      check_mac_value == calculate_check_mac_value(self.security_helper, with_id)
      form == DictSet(with_id, CheckMacValueKey, check_mac_value)
  IN IF ~HasAll(the_params, CheckoutRequired)
     THEN Done(<< "raise", PaymentGatewayBaseError("ValidationError", MissingCheckoutParams, None, None) >>,
               the_params, << >>, << >>)
     ELSE Done(<< "return", form >>, form, << << "calculate_check_mac_value", with_id >> >>, << >>)

\* verify_callback_data; a TypeError of the helper passes through
verify_callback_data(self, callback_data) ==
  LET is_valid == verify_check_mac_value(self.security_helper, callback_data)
  IN Done(IF is_valid[1] = "raise"
          THEN << "raise", PaymentGatewayBaseError(is_valid[2], << >>, None, None) >>
          ELSE is_valid,
          callback_data, << << "verify_check_mac_value", callback_data >> >>, << >>)

\* _send_api_request, before the request is sent: data with MerchantID and
\* TimeStamp where it had none
Stamped(self, data, now) ==
  LET with_id == IF DictHas(data, MerchantIDKey) THEN data
                 ELSE DictSet(data, MerchantIDKey, self.merchant_id)
  IN IF DictHas(with_id, TimeStampKey) THEN with_id
     ELSE DictSet(with_id, TimeStampKey, S(IntStr(now)))

\* data_to_send signed before MerchantID and TimeStamp are added
DataSignedUnstamped(self, data, now) ==
  DictSet(Stamped(self, data, now), CheckMacValueKey,
          calculate_check_mac_value(self.security_helper, data))

\* _send_api_request: data_to_send
DataToSend(self, data, now) ==
  DictSet(Stamped(self, data, now), CheckMacValueKey,
          calculate_check_mac_value(self.security_helper, Stamped(self, data, now)))

\* what requests.post and raise_for_status do: a response, or an exception
NoReply == [kind |-> "none", status_code |-> 0, reason |-> << >>, text |-> << >>]

Response(status_code, reason, text) ==
  [kind |-> "response", status_code |-> status_code, reason |-> reason, text |-> text]

RequestException(kind, text) == [kind |-> kind, status_code |-> 0, reason |-> << >>, text |-> text]

\* str(e) of the HTTPError of raise_for_status
HTTPErrorText(reply, url) ==
  IntStr(reply.status_code)
    \o (IF reply.status_code < 500 THEN << 32, 67, 108, 105, 101, 110, 116, 32, 69, 114, 114, 111, 114, 58, 32 >> ELSE << 32, 83, 101, 114, 118, 101, 114, 32, 69, 114, 114, 111, 114, 58, 32 >>)   \* " Client Error: ", " Server Error: "
    \o reply.reason \o << 32, 102, 111, 114, 32, 117, 114, 108, 58, 32 >> \o url   \* " for url: "

\* "ECPay API error: "
ApiErrorPrefix ==
  << 69, 67, 80, 97, 121, 32, 65, 80, 73, 32, 101, 114, 114, 111, 114, 58, 32 >>
\* "Unknown ECPay API error"
UnknownApiError ==
  << 85, 110, 107, 110, 111, 119, 110, 32, 69, 67, 80, 97, 121, 32, 65, 80, 73, 32, 101, 114,
     114, 111, 114 >>
\* "ECPay API communication error: "
CommunicationErrorPrefix ==
  << 69, 67, 80, 97, 121, 32, 65, 80, 73, 32, 99, 111, 109, 109, 117, 110, 105, 99, 97, 116,
     105, 111, 110, 32, 101, 114, 114, 111, 114, 58, 32 >>

\* _send_api_request, from the reply on: the outcome
ApiOutcome(self, url, reply) ==
  LET response_dict == IF reply.text = << >> THEN << >> ELSE ParseResponse(reply.text)
      rtn_code == GetOr(response_dict, RtnCodeKey, None)
      msg == GetOr(response_dict, RtnMsgKey, S(UnknownApiError))
      GatewayError(message, code) ==
        << "raise", PaymentGatewayBaseError("GatewayError", message, code, None) >>
  IN IF reply.kind = "Timeout"
     THEN GatewayError(<< 69, 67, 80, 97, 121, 32, 65, 80, 73, 32, 116, 105, 109, 101, 111, 117, 116, 32, 40 >> \o IntStr(self.timeout) \o << 115, 41 >>, None)   \* "ECPay API timeout (", "s)"
     ELSE IF reply.kind /= "response"
     THEN GatewayError(CommunicationErrorPrefix \o reply.text, None)
     ELSE IF reply.status_code >= 400 /\ reply.status_code < 600
     THEN GatewayError(CommunicationErrorPrefix \o HTTPErrorText(reply, url), None)
     ELSE IF rtn_code /= S(<< 49 >>)   \* "1"
     THEN GatewayError(ApiErrorPrefix \o Format(msg), rtn_code)
     ELSE << "return", response_dict >>

\* _send_api_request: data is changed in place (MerchantID, TimeStamp), a
\* copy with CheckMacValue is posted
send_api_request(self, endpoint, data, data_to_send, now, reply) ==
  Done(ApiOutcome(self, self.base_url \o endpoint, reply),
       Stamped(self, data, now),
       << << "calculate_check_mac_value", Stamped(self, data, now) >> >>,
       << [url |-> self.base_url \o endpoint, data |-> data_to_send, timeout |-> self.timeout] >>)

\* "/Cashier/QueryTradeInfo/V5"
QueryTradeInfoEndpoint ==
  << 47, 67, 97, 115, 104, 105, 101, 114, 47, 81, 117, 101, 114, 121, 84, 114, 97, 100, 101,
     73, 110, 102, 111, 47, 86, 53 >>
\* "/CreditDetail/DoAction/V5"
DoActionEndpoint ==
  << 47, 67, 114, 101, 100, 105, 116, 68, 101, 116, 97, 105, 108, 47, 68, 111, 65, 99, 116,
     105, 111, 110, 47, 86, 53 >>
\* "MerchantTradeNo is required for ECPay query."
QueryNeedsTradeNo ==
  << 77, 101, 114, 99, 104, 97, 110, 116, 84, 114, 97, 100, 101, 78, 111, 32, 105, 115, 32,
     114, 101, 113, 117, 105, 114, 101, 100, 32, 102, 111, 114, 32, 69, 67, 80, 97, 121, 32,
     113, 117, 101, 114, 121, 46 >>
\* "Missing params for ECPay DoAction: ['MerchantTradeNo', 'TradeNo', 'Action', 'TotalAmount']"
MissingActionParams ==
  << 77, 105, 115, 115, 105, 110, 103, 32, 112, 97, 114, 97, 109, 115, 32, 102, 111, 114, 32,
     69, 67, 80, 97, 121, 32, 68, 111, 65, 99, 116, 105, 111, 110, 58, 32, 91, 39, 77, 101,
     114, 99, 104, 97, 110, 116, 84, 114, 97, 100, 101, 78, 111, 39, 44, 32, 39, 84, 114, 97,
     100, 101, 78, 111, 39, 44, 32, 39, 65, 99, 116, 105, 111, 110, 39, 44, 32, 39, 84, 111,
     116, 97, 108, 65, 109, 111, 117, 110, 116, 39, 93 >>

ActionRequired == << MerchantTradeNoKey, TradeNoKey, ActionKey, TotalAmountKey >>

\* send_query_order_request
send_query_order_request(self, data, data_to_send, now, reply) ==
  IF ~DictHas(data, MerchantTradeNoKey)
  THEN Done(<< "raise", PaymentGatewayBaseError("ValidationError", QueryNeedsTradeNo, None, None) >>,
            data, << >>, << >>)
  ELSE send_api_request(self, QueryTradeInfoEndpoint, data, data_to_send, now, reply)

\* send_action_request
send_action_request(self, data, data_to_send, now, reply) ==
  IF ~HasAll(data, ActionRequired)
  THEN Done(<< "raise", PaymentGatewayBaseError("ValidationError", MissingActionParams, None, None) >>,
            data, << >>, << >>)
  ELSE send_api_request(self, DoActionEndpoint, data, data_to_send, now, reply)

\* -- the calls of one caller --

\* the checkout mapping of the tests
TestCheckout ==
  << << MerchantTradeNoKey, S(<< 116, 49, 50, 51 >>) >>, << MerchantTradeDateKey, S(<< 100 >>) >>,   \* "t123", "d"
     << PaymentTypeKey, S(<< 97, 105, 111 >>) >>, << TotalAmountKey, << "int", 100 >> >>,   \* "aio"
     << TradeDescKey, S(<< 100, 101, 115, 99 >>) >>, << ItemNameKey, S(<< 105, 116, 101, 109 >>) >>,   \* "desc", "item"
     << ReturnURLKey, S(<< 117, 114, 108 >>) >>, << ChoosePaymentKey, S(<< 65, 84, 77 >>) >>,   \* "url", "ATM"
     << EncryptTypeKey, << "int", 1 >> >> >>

OtherMerchant == S(<< 51, 48, 48, 50, 54, 48, 55 >>)   \* "3002607"
StaleMac == S(<< 83, 84, 65, 76, 69 >>)   \* "STALE"

\* it, with a MerchantID of the caller, with a stale CheckMacValue, without
\* ReturnURL, and the empty mapping
CheckoutParams ==
  { TestCheckout,
    << << MerchantIDKey, OtherMerchant >> >> \o TestCheckout,
    DictSet(TestCheckout, CheckMacValueKey, StaleMac),
    DictDel(TestCheckout, ReturnURLKey),
    << >> }

\* build_checkout_form_data(p)
BuildCheckoutFormData ==
  /\ dao_pc = "start"
  /\ \E p \in CheckoutParams :
       \E done \in { build_checkout_form_data(TestDao, p) } :
          /\ dao_call' = << "build_checkout_form_data", p >>
          /\ dao_data' = done.data
          /\ helper_calls' = done.calls
          /\ posted' = done.posts
          /\ dao_outcome' = done.out
  /\ dao_pc' = "built"
  /\ UNCHANGED gateway_reply
  /\ UNCHANGED helper_vars
  /\ UNCHANGED sign_vars
  /\ UNCHANGED factory_vars
  /\ UNCHANGED adapter_vars
  /\ UNCHANGED thread_vars
  /\ UNCHANGED step_vars
  /\ UNCHANGED encode_vars

\* what comes back from the gateway after a checkout: the form data, the form
\* data with another amount, the form data without its signature
CallbackData ==
  { dao_data,
    DictSet(dao_data, TotalAmountKey, << "int", 1 >>),
    DictDel(dao_data, CheckMacValueKey) }

\* verify_callback_data(c)
VerifyCallbackData ==
  /\ dao_pc = "built"
  /\ \E c \in CallbackData :
       \E done \in { verify_callback_data(TestDao, c) } :
          /\ dao_call' = << "verify_callback_data", c >>
          /\ dao_data' = done.data
          /\ helper_calls' = done.calls
          /\ posted' = done.posts
          /\ dao_outcome' = done.out
  /\ dao_pc' = "called_back"
  /\ UNCHANGED gateway_reply
  /\ UNCHANGED helper_vars
  /\ UNCHANGED sign_vars
  /\ UNCHANGED factory_vars
  /\ UNCHANGED adapter_vars
  /\ UNCHANGED thread_vars
  /\ UNCHANGED step_vars
  /\ UNCHANGED encode_vars

\* datetime.now().timestamp()
Clock == { 1700000000, 1700000001 }

\* "MerchantID=2000132&MerchantTradeNo=action123&TradeNo=ecp789&RtnCode=1&RtnMsg=Success&CheckMacValue=AB76F86C83F993EF03A530ABD04377BF719B6BAAEB1FE7C03379905120CB3B91"
ActionOkText ==
  << 77, 101, 114, 99, 104, 97, 110, 116, 73, 68, 61, 50, 48, 48, 48, 49, 51, 50, 38, 77, 101,
     114, 99, 104, 97, 110, 116, 84, 114, 97, 100, 101, 78, 111, 61, 97, 99, 116, 105, 111,
     110, 49, 50, 51, 38, 84, 114, 97, 100, 101, 78, 111, 61, 101, 99, 112, 55, 56, 57, 38, 82,
     116, 110, 67, 111, 100, 101, 61, 49, 38, 82, 116, 110, 77, 115, 103, 61, 83, 117, 99, 99,
     101, 115, 115, 38, 67, 104, 101, 99, 107, 77, 97, 99, 86, 97, 108, 117, 101, 61, 65, 66,
     55, 54, 70, 56, 54, 67, 56, 51, 70, 57, 57, 51, 69, 70, 48, 51, 65, 53, 51, 48, 65, 66,
     68, 48, 52, 51, 55, 55, 66, 70, 55, 49, 57, 66, 54, 66, 65, 65, 69, 66, 49, 70, 69, 55,
     67, 48, 51, 51, 55, 57, 57, 48, 53, 49, 50, 48, 67, 66, 51, 66, 57, 49 >>
\* "RtnCode=1&RtnMsg=Success&CheckMacValue=INVALIDRECEIVEDMAC"
ForgedOkText ==
  << 82, 116, 110, 67, 111, 100, 101, 61, 49, 38, 82, 116, 110, 77, 115, 103, 61, 83, 117, 99,
     99, 101, 115, 115, 38, 67, 104, 101, 99, 107, 77, 97, 99, 86, 97, 108, 117, 101, 61, 73,
     78, 86, 65, 76, 73, 68, 82, 69, 67, 69, 73, 86, 69, 68, 77, 65, 67 >>
\* "RtnCode=1&RtnMsg=Success"
UnsignedOkText ==
  << 82, 116, 110, 67, 111, 100, 101, 61, 49, 38, 82, 116, 110, 77, 115, 103, 61, 83, 117, 99,
     99, 101, 115, 115 >>
\* "MerchantID=2000132&MerchantTradeNo=action123&TradeNo=ecp789&RtnCode=10200047&RtnMsg=Refund+failed&CheckMacValue=606E0E0A37A6FC7AD0B8BE10B85A688FC8A6E3AAE302EE75B2BDB415DAE270D1"
RefundFailedText ==
  << 77, 101, 114, 99, 104, 97, 110, 116, 73, 68, 61, 50, 48, 48, 48, 49, 51, 50, 38, 77, 101,
     114, 99, 104, 97, 110, 116, 84, 114, 97, 100, 101, 78, 111, 61, 97, 99, 116, 105, 111,
     110, 49, 50, 51, 38, 84, 114, 97, 100, 101, 78, 111, 61, 101, 99, 112, 55, 56, 57, 38, 82,
     116, 110, 67, 111, 100, 101, 61, 49, 48, 50, 48, 48, 48, 52, 55, 38, 82, 116, 110, 77,
     115, 103, 61, 82, 101, 102, 117, 110, 100, 43, 102, 97, 105, 108, 101, 100, 38, 67, 104,
     101, 99, 107, 77, 97, 99, 86, 97, 108, 117, 101, 61, 54, 48, 54, 69, 48, 69, 48, 65, 51,
     55, 65, 54, 70, 67, 55, 65, 68, 48, 66, 56, 66, 69, 49, 48, 66, 56, 53, 65, 54, 56, 56,
     70, 67, 56, 65, 54, 69, 51, 65, 65, 69, 51, 48, 50, 69, 69, 55, 53, 66, 50, 66, 68, 66,
     52, 49, 53, 68, 65, 69, 50, 55, 48, 68, 49 >>
\* "MerchantID=2000132&MerchantTradeNo=query123&TradeNo=ecp456&TradeAmt=200&PaymentType=Credit_CreditCard&TradeStatus=1&RtnMsg=Success&CheckMacValue=90EBD196E3CE0DF6D51C56D3FE6A3B3BE987B1BEA92B97B5C97C3B8FEEB421C1"
QueryOkText ==
  << 77, 101, 114, 99, 104, 97, 110, 116, 73, 68, 61, 50, 48, 48, 48, 49, 51, 50, 38, 77, 101,
     114, 99, 104, 97, 110, 116, 84, 114, 97, 100, 101, 78, 111, 61, 113, 117, 101, 114, 121,
     49, 50, 51, 38, 84, 114, 97, 100, 101, 78, 111, 61, 101, 99, 112, 52, 53, 54, 38, 84, 114,
     97, 100, 101, 65, 109, 116, 61, 50, 48, 48, 38, 80, 97, 121, 109, 101, 110, 116, 84, 121,
     112, 101, 61, 67, 114, 101, 100, 105, 116, 95, 67, 114, 101, 100, 105, 116, 67, 97, 114,
     100, 38, 84, 114, 97, 100, 101, 83, 116, 97, 116, 117, 115, 61, 49, 38, 82, 116, 110, 77,
     115, 103, 61, 83, 117, 99, 99, 101, 115, 115, 38, 67, 104, 101, 99, 107, 77, 97, 99, 86,
     97, 108, 117, 101, 61, 57, 48, 69, 66, 68, 49, 57, 54, 69, 51, 67, 69, 48, 68, 70, 54, 68,
     53, 49, 67, 53, 54, 68, 51, 70, 69, 54, 65, 51, 66, 51, 66, 69, 57, 56, 55, 66, 49, 66,
     69, 65, 57, 50, 66, 57, 55, 66, 53, 67, 57, 55, 67, 51, 66, 56, 70, 69, 69, 66, 52, 50,
     49, 67, 49 >>
\* "Internal Server Error"
ServerErrorText ==
  << 73, 110, 116, 101, 114, 110, 97, 108, 32, 83, 101, 114, 118, 101, 114, 32, 69, 114, 114,
     111, 114 >>

\* the answers of the gateway: signed, forged and unsigned successes, a
\* refused refund, the state of an order, an empty body, an HTTP error, a
\* timeout, a broken connection
Replies ==
  { Response(200, << 79, 75 >>, ActionOkText),   \* "OK"
    Response(200, << 79, 75 >>, ForgedOkText),   \* "OK"
    Response(200, << 79, 75 >>, UnsignedOkText),   \* "OK"
    Response(200, << 79, 75 >>, RefundFailedText),   \* "OK"
    Response(200, << 79, 75 >>, QueryOkText),   \* "OK"
    Response(200, << 79, 75 >>, << >>),   \* "OK"
    Response(500, << 73, 110, 116, 101, 114, 110, 97, 108, 32, 83, 101, 114, 118, 101, 114, 32, 69, 114, 114, 111, 114 >>, ServerErrorText),   \* "Internal Server Error"
    RequestException("Timeout", << 82, 101, 113, 117, 101, 115, 116, 32, 116, 105, 109, 101, 100, 32, 111, 117, 116 >>),   \* "Request timed out"
    RequestException("ConnectionError", << 67, 111, 110, 110, 101, 99, 116, 105, 111, 110, 32, 114, 101, 102, 117, 115, 101, 100 >>) }   \* "Connection refused"

\* the query of the tests, one of the adapter's, the empty mapping, and a
\* query that brings its own MerchantID, TimeStamp and CheckMacValue
QueryData ==
  { << << MerchantTradeNoKey, S(<< 113, 117, 101, 114, 121, 49, 50, 51 >>) >> >>,   \* "query123"
    << << MerchantTradeNoKey, S(<< 79, 82, 68, 69, 82, 95, 81, 49 >>) >>, << PlatformIDKey, S(<< 80, 49 >>) >> >>,   \* "ORDER_Q1", "P1"
    << >>,
    << << MerchantTradeNoKey, S(<< 113, 117, 101, 114, 121, 49, 50, 51 >>) >>, << MerchantIDKey, OtherMerchant >>,   \* "query123"
       << TimeStampKey, S(<< 49 >>) >>, << CheckMacValueKey, StaleMac >> >> }   \* "1"

\* the refund of the tests, a capture, a refund of a platform's merchant,
\* and a refund without its amount
ActionData ==
  { << << MerchantTradeNoKey, S(<< 97, 99, 116, 105, 111, 110, 49, 50, 51 >>) >>, << TradeNoKey, S(<< 101, 99, 112, 55, 56, 57 >>) >>,   \* "action123", "ecp789"
       << ActionKey, S(<< 67 >>) >>, << TotalAmountKey, << "int", 50 >> >> >>,   \* "C"
    << << MerchantTradeNoKey, S(<< 97, 99, 116, 105, 111, 110, 49, 50, 51 >>) >>, << TradeNoKey, S(<< 101, 99, 112, 55, 56, 57 >>) >>,   \* "action123", "ecp789"
       << ActionKey, S(<< 82 >>) >>, << TotalAmountKey, << "int", 50 >> >>,   \* "R"
       << PlatformIDKey, S(<< 80, 49 >>) >> >>, << << MerchantTradeNoKey, S(<< 97, 99, 116, 105, 111, 110, 49, 50, 51 >>) >>, << TradeNoKey, S(<< 101, 99, 112, 55, 56, 57 >>) >>,   \* "P1", "action123", "ecp789"
       << ActionKey, S(<< 82 >>) >>, << TotalAmountKey, << "int", 50 >> >> >>,   \* "R"
    << << MerchantTradeNoKey, S(<< 97, 99, 116, 105, 111, 110, 49, 50, 51 >>) >>, << TradeNoKey, S(<< 101, 99, 112, 55, 56, 57 >>) >>,   \* "action123", "ecp789"
       << ActionKey, S(<< 82 >>) >> >> }   \* "R"

\* send_query_order_request(d), answered by r
SendQueryOrderRequest ==
  /\ dao_pc = "start"
  /\ \E d \in QueryData, now \in Clock :
       \E data_to_send \in { DataToSend(TestDao, d, now) }, r \in Replies :
         \E done \in { send_query_order_request(TestDao, d, data_to_send, now, r) } :
               /\ dao_call' = << "send_query_order_request", d >>
               /\ dao_data' = done.data
               /\ helper_calls' = done.calls
               /\ posted' = done.posts
               /\ gateway_reply' = IF done.posts = << >> THEN NoReply ELSE r
               /\ dao_outcome' = done.out
  /\ dao_pc' = "sent"
  /\ UNCHANGED helper_vars
  /\ UNCHANGED sign_vars
  /\ UNCHANGED factory_vars
  /\ UNCHANGED adapter_vars
  /\ UNCHANGED thread_vars
  /\ UNCHANGED step_vars
  /\ UNCHANGED encode_vars

\* send_action_request(d), answered by r
SendActionRequest ==
  /\ dao_pc = "start"
  /\ \E d \in ActionData, now \in Clock :
       \E data_to_send \in { DataToSend(TestDao, d, now) }, r \in Replies :
         \E done \in { send_action_request(TestDao, d, data_to_send, now, r) } :
               /\ dao_call' = << "send_action_request", d >>
               /\ dao_data' = done.data
               /\ helper_calls' = done.calls
               /\ posted' = done.posts
               /\ gateway_reply' = IF done.posts = << >> THEN NoReply ELSE r
               /\ dao_outcome' = done.out
  /\ dao_pc' = "sent"
  /\ UNCHANGED helper_vars
  /\ UNCHANGED sign_vars
  /\ UNCHANGED factory_vars
  /\ UNCHANGED adapter_vars
  /\ UNCHANGED thread_vars
  /\ UNCHANGED step_vars
  /\ UNCHANGED encode_vars

\* ------------------------------------------------------------------------
\* The payment inputs of gateways/ecpay/dto.py
\* ------------------------------------------------------------------------

\* the fields of r, with those of s added or replaced
Extend(r, s) == [f \in DOMAIN r \cup DOMAIN s |-> IF f \in DOMAIN s THEN s[f] ELSE r[f]]

\* bool(v) of a str, an int or None
Truthy(v) == v /= None /\ v /= S(<< >>) /\ v /= << "int", 0 >>

\* an exception that is no PaymentGatewayBaseError
OtherError(cls, message) == [cls |-> cls, message |-> message, code |-> None, raw_response |-> None]

ValidationError(message) == << "raise", PaymentGatewayBaseError("ValidationError", message, None, None) >>

Returns == << "return", None >>

\* BasePaymentInput and EcpayBasePaymentInput: the required fields, and the
\* defaults of the others
EcpayBasePaymentInput(cls, amount, order_id, details, return_url) ==
  [cls |-> cls, amount |-> amount, currency |-> S(<< 84, 87, 68 >>), order_id |-> order_id,   \* "TWD"
   details |-> details, return_url |-> return_url, client_redirect_url |-> None,
   client_back_url |-> None, item_url |-> None, remark |-> None,
   need_extra_paid_info |-> None, store_id |-> None, platform_id |-> None,
   custom_field1 |-> None, custom_field2 |-> None, custom_field3 |-> None,
   custom_field4 |-> None, language |-> None, device_source |-> None]

EcpayCreditPaymentInput(amount, order_id, details, return_url) ==
  Extend(EcpayBasePaymentInput("EcpayCreditPaymentInput", amount, order_id, details, return_url),
         [credit_installment |-> None, installment_amount |-> None, redeem |-> None,
          union_pay |-> None, period_amount |-> None, period_type |-> None,
          frequency |-> None, exec_times |-> None, period_return_url |-> None,
          binding_card |-> None, merchant_member_id |-> None])

EcpayAtmPaymentInput(amount, order_id, details, return_url) ==
  Extend(EcpayBasePaymentInput("EcpayAtmPaymentInput", amount, order_id, details, return_url),
         [expire_date |-> << "int", 3 >>, payment_info_url |-> None,
          client_redirect_url_for_info |-> None])

EcpayCvsPaymentInput(amount, order_id, details, return_url) ==
  Extend(EcpayBasePaymentInput("EcpayCvsPaymentInput", amount, order_id, details, return_url),
         [store_expire_date |-> << "int", 10080 >>, payment_info_url |-> None,
          client_redirect_url_for_info |-> None, desc_1 |-> None, desc_2 |-> None,
          desc_3 |-> None, desc_4 |-> None])

EcpayBarcodePaymentInput(amount, order_id, details, return_url) ==
  Extend(EcpayBasePaymentInput("EcpayBarcodePaymentInput", amount, order_id, details, return_url),
         [store_expire_date |-> << "int", 7 >>, payment_info_url |-> None,
          client_redirect_url_for_info |-> None])

EcpayBnplPaymentInput(amount, order_id, details, return_url) ==
  Extend(EcpayBasePaymentInput("EcpayBnplPaymentInput", amount, order_id, details, return_url),
         [payment_info_url |-> None, client_redirect_url_for_info |-> None])

\* the first check of a list of << failed, message >> that fails
FirstFailure(checks) ==
  IF \A i \in 1..Len(checks) : ~checks[i][1] THEN Returns
  ELSE ValidationError(checks[CHOOSE i \in 1..Len(checks) :
                                /\ checks[i][1]
                                /\ \A j \in 1..(i - 1) : ~checks[j][1]][2])

TooLong(v, n) == Truthy(v) /\ Len(v[2]) > n

\* EcpayBasePaymentInput.__post_init__
BasePostInit(self) ==
  FirstFailure(<<
    << Truthy(self.need_extra_paid_info) /\ self.need_extra_paid_info \notin { S(<< 89 >>), S(<< 78 >>) },   \* "Y", "N"
       << 78, 101, 101, 100, 69, 120, 116, 114, 97, 80, 97, 105, 100, 73, 110, 102, 111, 32, 109, 117, 115, 116, 32, 98, 101, 32, 39, 89, 39, 32, 111, 114, 32, 39, 78, 39, 46 >> >>,   \* "NeedExtraPaidInfo must be 'Y' or 'N'."
    << Truthy(self.language)
         /\ self.language \notin { S(<< 69, 78, 71 >>), S(<< 75, 79, 82 >>), S(<< 74, 80, 78 >>), S(<< 67, 72, 73 >>) },   \* "ENG", "KOR", "JPN", "CHI"
       << 73, 110, 118, 97, 108, 105, 100, 32, 76, 97, 110, 103, 117, 97, 103, 101, 32, 99, 111, 100, 101, 46 >> >>,   \* "Invalid Language code."
    << Truthy(self.device_source) /\ self.device_source /= S(<< 103, 119, 112, 97, 121 >>),   \* "gwpay"
       << 73, 110, 118, 97, 108, 105, 100, 32, 68, 101, 118, 105, 99, 101, 83, 111, 117, 114, 99, 101, 32, 118, 97, 108, 117, 101, 46 >> >>,   \* "Invalid DeviceSource value."
    << TooLong(self.custom_field1, 50), << 67, 117, 115, 116, 111, 109, 70, 105, 101, 108, 100, 49, 32, 101, 120, 99, 101, 101, 100, 115, 32, 53, 48, 32, 99, 104, 97, 114, 97, 99, 116, 101, 114, 115, 46 >> >>,   \* "CustomField1 exceeds 50 characters."
    << TooLong(self.custom_field2, 50), << 67, 117, 115, 116, 111, 109, 70, 105, 101, 108, 100, 50, 32, 101, 120, 99, 101, 101, 100, 115, 32, 53, 48, 32, 99, 104, 97, 114, 97, 99, 116, 101, 114, 115, 46 >> >>,   \* "CustomField2 exceeds 50 characters."
    << TooLong(self.custom_field3, 50), << 67, 117, 115, 116, 111, 109, 70, 105, 101, 108, 100, 51, 32, 101, 120, 99, 101, 101, 100, 115, 32, 53, 48, 32, 99, 104, 97, 114, 97, 99, 116, 101, 114, 115, 46 >> >>,   \* "CustomField3 exceeds 50 characters."
    << TooLong(self.custom_field4, 50), << 67, 117, 115, 116, 111, 109, 70, 105, 101, 108, 100, 52, 32, 101, 120, 99, 101, 101, 100, 115, 32, 53, 48, 32, 99, 104, 97, 114, 97, 99, 116, 101, 114, 115, 46 >> >>,   \* "CustomField4 exceeds 50 characters."
    << self.return_url = None, << 69, 67, 80, 97, 121, 32, 65, 73, 79, 32, 114, 101, 113, 117, 105, 114, 101, 115, 32, 39, 114, 101, 116, 117, 114, 110, 95, 117, 114, 108, 39, 46 >> >> >>)   \* "ECPay AIO requires 'return_url'."

\* EcpayCreditPaymentInput.__post_init__, after the checks of the base class
CreditPostInit(self) ==
  LET periodic == << self.period_amount, self.period_type, self.frequency, self.exec_times >>
      is_installment == self.credit_installment /= None
      is_periodic == \E i \in 1..4 : periodic[i] /= None
      is_redeem == self.redeem = S(<< 89 >>)   \* "Y"
      all_given == \A i \in 1..4 : periodic[i] /= None
      several == Cardinality({ i \in 1..3 : << is_installment, is_periodic, is_redeem >>[i] }) > 1
      type == self.period_type
      frequency == self.frequency[2]
      exec_times == self.exec_times[2]
  IN FirstFailure(<<
       << several, << 67, 114, 101, 100, 105, 116, 73, 110, 115, 116, 97, 108, 108, 109, 101, 110, 116, 44, 32, 80, 101, 114, 105, 111, 100, 105, 99, 32, 112, 97, 114, 97, 109, 101, 116, 101, 114, 115, 44, 32, 97, 110, 100, 32, 82, 101, 100, 101, 101, 109, 32, 97, 114, 101, 32, 109, 117, 116, 117, 97, 108, 108, 121, 32, 101, 120, 99, 108, 117, 115, 105, 118, 101, 46 >> >>,   \* "CreditInstallment, Periodic parameters, and Redeem are mutually exclusive."
       << self.binding_card = << "int", 1 >> /\ ~Truthy(self.merchant_member_id),
          << 77, 101, 114, 99, 104, 97, 110, 116, 77, 101, 109, 98, 101, 114, 73, 68, 32, 105, 115, 32, 114, 101, 113, 117, 105, 114, 101, 100, 32, 119, 104, 101, 110, 32, 66, 105, 110, 100, 105, 110, 103, 67, 97, 114, 100, 32, 105, 115, 32, 49, 46 >> >>,   \* "MerchantMemberID is required when BindingCard is 1."
       << is_periodic /\ ~all_given,
          << 65, 108, 108, 32, 112, 101, 114, 105, 111, 100, 105, 99, 32, 102, 105, 101, 108, 100, 115, 32, 40, 80, 101, 114, 105, 111, 100, 65, 109, 111, 117, 110, 116, 44, 32, 80, 101, 114, 105, 111, 100, 84, 121, 112, 101, 44, 32, 70, 114, 101, 113, 117, 101, 110, 99, 121, 44, 32, 69, 120, 101, 99, 84, 105, 109, 101, 115, 41, 32, 109, 117, 115, 116, 32, 98, 101, 32, 112, 114, 111, 118, 105, 100, 101, 100, 32, 116, 111, 103, 101, 116, 104, 101, 114, 46 >> >>,   \* "All periodic fields (PeriodAmount, PeriodType, Frequency, ExecTimes) must be provided together."
       << all_given /\ self.amount /= self.period_amount,
          << 70, 111, 114, 32, 112, 101, 114, 105, 111, 100, 105, 99, 32, 112, 97, 121, 109, 101, 110, 116, 115, 44, 32, 84, 111, 116, 97, 108, 65, 109, 111, 117, 110, 116, 32, 109, 117, 115, 116, 32, 98, 101, 32, 101, 113, 117, 97, 108, 32, 116, 111, 32, 80, 101, 114, 105, 111, 100, 65, 109, 111, 117, 110, 116, 46 >> >>,   \* "For periodic payments, TotalAmount must be equal to PeriodAmount."
       << all_given /\ exec_times < 2, << 69, 120, 101, 99, 84, 105, 109, 101, 115, 32, 109, 117, 115, 116, 32, 98, 101, 32, 97, 116, 32, 108, 101, 97, 115, 116, 32, 50, 32, 102, 111, 114, 32, 112, 101, 114, 105, 111, 100, 105, 99, 32, 112, 97, 121, 109, 101, 110, 116, 115, 46 >> >>,   \* "ExecTimes must be at least 2 for periodic payments."
       << all_given /\ type = S(<< 68 >>) /\ ~(1 =< frequency /\ frequency =< 365),   \* "D"
          << 70, 114, 101, 113, 117, 101, 110, 99, 121, 32, 102, 111, 114, 32, 80, 101, 114, 105, 111, 100, 84, 121, 112, 101, 32, 39, 68, 39, 32, 109, 117, 115, 116, 32, 98, 101, 32, 98, 101, 116, 119, 101, 101, 110, 32, 49, 32, 97, 110, 100, 32, 51, 54, 53, 46 >> >>,   \* "Frequency for PeriodType 'D' must be between 1 and 365."
       << all_given /\ type = S(<< 68 >>) /\ exec_times > 999,   \* "D"
          << 69, 120, 101, 99, 84, 105, 109, 101, 115, 32, 102, 111, 114, 32, 80, 101, 114, 105, 111, 100, 84, 121, 112, 101, 32, 39, 68, 39, 32, 99, 97, 110, 110, 111, 116, 32, 101, 120, 99, 101, 101, 100, 32, 57, 57, 57, 46 >> >>,   \* "ExecTimes for PeriodType 'D' cannot exceed 999."
       << all_given /\ type = S(<< 77 >>) /\ ~(1 =< frequency /\ frequency =< 12),   \* "M"
          << 70, 114, 101, 113, 117, 101, 110, 99, 121, 32, 102, 111, 114, 32, 80, 101, 114, 105, 111, 100, 84, 121, 112, 101, 32, 39, 77, 39, 32, 109, 117, 115, 116, 32, 98, 101, 32, 98, 101, 116, 119, 101, 101, 110, 32, 49, 32, 97, 110, 100, 32, 49, 50, 46 >> >>,   \* "Frequency for PeriodType 'M' must be between 1 and 12."
       << all_given /\ type = S(<< 77 >>) /\ exec_times > 99,   \* "M"
          << 69, 120, 101, 99, 84, 105, 109, 101, 115, 32, 102, 111, 114, 32, 80, 101, 114, 105, 111, 100, 84, 121, 112, 101, 32, 39, 77, 39, 32, 99, 97, 110, 110, 111, 116, 32, 101, 120, 99, 101, 101, 100, 32, 57, 57, 46 >> >>,   \* "ExecTimes for PeriodType 'M' cannot exceed 99."
       << all_given /\ type = S(<< 89 >>) /\ frequency /= 1,   \* "Y"
          << 70, 114, 101, 113, 117, 101, 110, 99, 121, 32, 102, 111, 114, 32, 80, 101, 114, 105, 111, 100, 84, 121, 112, 101, 32, 39, 89, 39, 32, 109, 117, 115, 116, 32, 98, 101, 32, 49, 46 >> >>,   \* "Frequency for PeriodType 'Y' must be 1."
       << all_given /\ type = S(<< 89 >>) /\ exec_times > 9,   \* "Y"
          << 69, 120, 101, 99, 84, 105, 109, 101, 115, 32, 102, 111, 114, 32, 80, 101, 114, 105, 111, 100, 84, 121, 112, 101, 32, 39, 89, 39, 32, 99, 97, 110, 110, 111, 116, 32, 101, 120, 99, 101, 101, 100, 32, 57, 46 >> >> >>)   \* "ExecTimes for PeriodType 'Y' cannot exceed 9."

AtmPostInit(self) ==
  FirstFailure(<<
    << self.expire_date /= None /\ ~(1 =< self.expire_date[2] /\ self.expire_date[2] =< 60),
       << 69, 120, 112, 105, 114, 101, 68, 97, 116, 101, 32, 102, 111, 114, 32, 65, 84, 77, 32, 109, 117, 115, 116, 32, 98, 101, 32, 98, 101, 116, 119, 101, 101, 110, 32, 49, 32, 97, 110, 100, 32, 54, 48, 32, 100, 97, 121, 115, 46 >> >> >>)   \* "ExpireDate for ATM must be between 1 and 60 days."

CvsPostInit(self) ==
  FirstFailure(<<
    << self.store_expire_date /= None /\ self.store_expire_date[2] > 43200,
       << 83, 116, 111, 114, 101, 69, 120, 112, 105, 114, 101, 68, 97, 116, 101, 32, 102, 111, 114, 32, 67, 86, 83, 32, 99, 97, 110, 110, 111, 116, 32, 101, 120, 99, 101, 101, 100, 32, 52, 51, 50, 48, 48, 32, 109, 105, 110, 117, 116, 101, 115, 32, 40, 51, 48, 32, 100, 97, 121, 115, 41, 46 >> >>,   \* "StoreExpireDate for CVS cannot exceed 43200 minutes (30 days)."
    << TooLong(self.desc_1, 20), << 68, 101, 115, 99, 95, 49, 32, 101, 120, 99, 101, 101, 100, 115, 32, 50, 48, 32, 99, 104, 97, 114, 97, 99, 116, 101, 114, 115, 46 >> >>,   \* "Desc_1 exceeds 20 characters."
    << TooLong(self.desc_2, 20), << 68, 101, 115, 99, 95, 50, 32, 101, 120, 99, 101, 101, 100, 115, 32, 50, 48, 32, 99, 104, 97, 114, 97, 99, 116, 101, 114, 115, 46 >> >>,   \* "Desc_2 exceeds 20 characters."
    << TooLong(self.desc_3, 20), << 68, 101, 115, 99, 95, 51, 32, 101, 120, 99, 101, 101, 100, 115, 32, 50, 48, 32, 99, 104, 97, 114, 97, 99, 116, 101, 114, 115, 46 >> >>,   \* "Desc_3 exceeds 20 characters."
    << TooLong(self.desc_4, 20), << 68, 101, 115, 99, 95, 52, 32, 101, 120, 99, 101, 101, 100, 115, 32, 50, 48, 32, 99, 104, 97, 114, 97, 99, 116, 101, 114, 115, 46 >> >> >>)   \* "Desc_4 exceeds 20 characters."

BarcodePostInit(self) ==
  FirstFailure(<<
    << self.store_expire_date /= None
         /\ ~(1 =< self.store_expire_date[2] /\ self.store_expire_date[2] =< 30),
       << 83, 116, 111, 114, 101, 69, 120, 112, 105, 114, 101, 68, 97, 116, 101, 32, 102, 111, 114, 32, 66, 65, 82, 67, 79, 68, 69, 32, 109, 117, 115, 116, 32, 98, 101, 32, 98, 101, 116, 119, 101, 101, 110, 32, 49, 32, 97, 110, 100, 32, 51, 48, 32, 100, 97, 121, 115, 32, 40, 115, 116, 97, 110, 100, 97, 114, 100, 32, 108, 105, 109, 105, 116, 41, 46 >> >> >>)   \* "StoreExpireDate for BARCODE must be between 1 and 30 days (standard limit)."

TwqrPostInit(self) ==
  FirstFailure(<<
    << ~(6 =< self.amount[2] /\ self.amount[2] =< 49999),
       << 84, 111, 116, 97, 108, 65, 109, 111, 117, 110, 116, 32, 102, 111, 114, 32, 84, 87, 81, 82, 32, 109, 117, 115, 116, 32, 98, 101, 32, 98, 101, 116, 119, 101, 101, 110, 32, 54, 32, 97, 110, 100, 32, 52, 57, 44, 57, 57, 57, 32, 84, 87, 68, 46 >> >> >>)   \* "TotalAmount for TWQR must be between 6 and 49,999 TWD."

BnplPostInit(self) ==
  FirstFailure(<<
    << ~(1000 =< self.amount[2] /\ self.amount[2] =< 500000),
       << 84, 111, 116, 97, 108, 65, 109, 111, 117, 110, 116, 32, 102, 111, 114, 32, 66, 78, 80, 76, 32, 109, 117, 115, 116, 32, 98, 101, 32, 98, 101, 116, 119, 101, 101, 110, 32, 49, 44, 48, 48, 48, 32, 97, 110, 100, 32, 53, 48, 48, 44, 48, 48, 48, 32, 84, 87, 68, 46 >> >> >>)   \* "TotalAmount for BNPL must be between 1,000 and 500,000 TWD."

\* input.__post_init__(): the checks of the base class, then those of the
\* class of the input
post_init(self) ==
  IF BasePostInit(self) /= Returns THEN BasePostInit(self)
  ELSE IF self.cls = "EcpayCreditPaymentInput" THEN CreditPostInit(self)
  ELSE IF self.cls = "EcpayAtmPaymentInput" THEN AtmPostInit(self)
  ELSE IF self.cls = "EcpayCvsPaymentInput" THEN CvsPostInit(self)
  ELSE IF self.cls = "EcpayBarcodePaymentInput" THEN BarcodePostInit(self)
  ELSE IF self.cls = "EcpayTwqrPaymentInput" THEN TwqrPostInit(self)
  ELSE IF self.cls = "EcpayBnplPaymentInput" THEN BnplPostInit(self)
  ELSE Returns

\* ------------------------------------------------------------------------
\* EcpayAdapter: payment initiation
\* ------------------------------------------------------------------------

\* PaymentOutput, with the defaults of its optional fields
PaymentOutput(given) ==
  Extend([gateway_trade_no |-> None, order_id |-> None, message |-> S(<< >>),
          error_code |-> None, raw_response |-> None, redirect_url |-> None,
          redirect_method |-> None, redirect_form_data |-> None,
          payment_method_name |-> None, payment_info |-> None],
         given)

\* what a call of an adapter method leaves behind: its outcome and the calls
\* it made on the DAO
Ended(out, requests) == [out |-> out, requests |-> requests]

\* str(e.code) if hasattr(e, "code") and e.code else None
ErrorCode(e) == IF Truthy(e.code) THEN S(Format(e.code)) ELSE None

IsGatewayFailure(e) == e.cls \in { "ValidationError", "GatewayError", "AuthenticationError" }

\* a mapping without the entries whose value is None
WithoutNone(d) == SelectSeq(d, LAMBDA e : e[2] /= None)

\* the ItemName of _prepare_common_params: newlines become "#", carriage
\* returns go, and no more than 400 bytes of UTF-8 are kept
ItemName(details) ==
  LET item_name_str == SelectSeq([i \in 1..Len(details) |->
                                    IF details[i] = 10 THEN 35 ELSE details[i]] \o << >>,
                                 LAMBDA c : c /= 13)
      Bytes(n) == Len(Utf8Bytes(SubSeq(item_name_str, 1, n)))
      kept == CHOOSE n \in 0..Len(item_name_str) :
                Bytes(n) =< 400 /\ (n = Len(item_name_str) \/ Bytes(n + 1) > 400)
  IN IF Bytes(Len(item_name_str)) =< 400 THEN item_name_str
     ELSE IF kept = 0 THEN << 84, 114, 117, 110, 99, 97, 116, 101, 100, 32, 73, 116, 101, 109, 32, 78, 97, 109, 101, 32, 40, 68, 101, 99, 111, 100, 101, 32, 69, 114, 114, 111, 114, 41 >>   \* "Truncated Item Name (Decode Error)"
     ELSE SubSeq(item_name_str, 1, kept)

\* _prepare_common_params; details that is no str has no replace()
prepare_common_params(input_dto, now) ==
  IF input_dto.details[1] /= "str"
  THEN << "raise", OtherError("AttributeError", << 39, 78, 111, 110, 101, 84, 121, 112, 101, 39, 32, 111, 98, 106, 101, 99, 116, 32, 104, 97, 115, 32, 110, 111, 32, 97, 116, 116, 114, 105, 98, 117, 116, 101, 32, 39, 114, 101, 112, 108, 97, 99, 101, 39 >>) >>   \* "'NoneType' object has no attribute 'replace'"
  ELSE << "return",
          WithoutNone(<<
            << MerchantTradeNoKey, input_dto.order_id >>,
            << MerchantTradeDateKey, S(now) >>,
            << PaymentTypeKey, S(<< 97, 105, 111 >>) >>,   \* "aio"
            << TotalAmountKey, input_dto.amount >>,
            << TradeDescKey, input_dto.details >>,
            << ItemNameKey, S(ItemName(input_dto.details[2])) >>,
            << ReturnURLKey, input_dto.return_url >>,
            << EncryptTypeKey, << "int", 1 >> >>,
            << << 79, 114, 100, 101, 114, 82, 101, 115, 117, 108, 116, 85, 82, 76 >>, input_dto.client_redirect_url >>,   \* "OrderResultURL"
            << << 67, 108, 105, 101, 110, 116, 66, 97, 99, 107, 85, 82, 76 >>, input_dto.client_back_url >>,   \* "ClientBackURL"
            << << 73, 116, 101, 109, 85, 82, 76 >>, input_dto.item_url >>,   \* "ItemURL"
            << << 82, 101, 109, 97, 114, 107 >>, input_dto.remark >>,   \* "Remark"
            << << 78, 101, 101, 100, 69, 120, 116, 114, 97, 80, 97, 105, 100, 73, 110, 102, 111 >>, input_dto.need_extra_paid_info >>,   \* "NeedExtraPaidInfo"
            << << 83, 116, 111, 114, 101, 73, 68 >>, input_dto.store_id >>,   \* "StoreID"
            << PlatformIDKey, input_dto.platform_id >>,
            << << 67, 117, 115, 116, 111, 109, 70, 105, 101, 108, 100, 49 >>, input_dto.custom_field1 >>,   \* "CustomField1"
            << << 67, 117, 115, 116, 111, 109, 70, 105, 101, 108, 100, 50 >>, input_dto.custom_field2 >>,   \* "CustomField2"
            << << 67, 117, 115, 116, 111, 109, 70, 105, 101, 108, 100, 51 >>, input_dto.custom_field3 >>,   \* "CustomField3"
            << << 67, 117, 115, 116, 111, 109, 70, 105, 101, 108, 100, 52 >>, input_dto.custom_field4 >>,   \* "CustomField4"
            << << 76, 97, 110, 103, 117, 97, 103, 101 >>, input_dto.language >>,   \* "Language"
            << << 68, 101, 118, 105, 99, 101, 83, 111, 117, 114, 99, 101 >>, input_dto.device_source >> >>) >>   \* "DeviceSource"

\* "/Cashier/AioCheckOut/V5"
CheckoutEndpoint ==
  << 47, 67, 97, 115, 104, 105, 101, 114, 47, 65, 105, 111, 67, 104, 101, 99, 107, 79, 117,
     116, 47, 86, 53 >>

\* the output of a payment that could not be prepared
PaymentError(message, error_code, order_id) ==
  PaymentOutput([success |-> FALSE, status |-> "ERROR", message |-> S(message),
                 error_code |-> error_code, order_id |-> order_id])

\* _build_and_return_output that lets the errors of the DAO through
build_and_let_through(self, ecpay_params, order_id) ==
  LET built == self.dao.build_checkout_form_data
  IN Ended(IF built[1] = "return"
           THEN << "return",
                   PaymentOutput([success |-> TRUE, status |-> "PENDING",
                                  message |-> S(<< 82, 101, 100, 105, 114, 101, 99, 116, 32, 117, 115, 101, 114, 32, 116, 111, 32, 69, 67, 80, 97, 121, 32, 99, 104, 101, 99, 107, 111, 117, 116, 32, 112, 97, 103, 101, 46 >>),   \* "Redirect user to ECPay checkout page."
                                  redirect_url |-> S(self.dao.base_url \o CheckoutEndpoint),
                                  redirect_method |-> "POST",
                                  redirect_form_data |-> built[2],
                                  raw_response |-> built[2],
                                  order_id |-> order_id, payment_method_name |-> None]) >>
           ELSE built,
           << << "build_checkout_form_data", ecpay_params >> >>)

\* _build_and_return_output
build_and_return_output(self, ecpay_params, order_id) ==
  LET built == self.dao.build_checkout_form_data
  IN Ended(<< "return",
              IF built[1] = "return"
              THEN PaymentOutput([success |-> TRUE, status |-> "PENDING",
                                  message |-> S(<< 82, 101, 100, 105, 114, 101, 99, 116, 32, 117, 115, 101, 114, 32, 116, 111, 32, 69, 67, 80, 97, 121, 32, 99, 104, 101, 99, 107, 111, 117, 116, 32, 112, 97, 103, 101, 46 >>),   \* "Redirect user to ECPay checkout page."
                                  redirect_url |-> S(self.dao.base_url \o CheckoutEndpoint),
                                  redirect_method |-> "POST",
                                  redirect_form_data |-> built[2],
                                  raw_response |-> built[2],
                                  order_id |-> order_id, payment_method_name |-> None])
              ELSE IF IsGatewayFailure(built[2])
              THEN PaymentError(built[2].message, ErrorCode(built[2]), order_id)
              ELSE PaymentError(<< 65, 110, 32, 117, 110, 101, 120, 112, 101, 99, 116, 101, 100, 32, 105, 110, 116, 101, 114, 110, 97, 108, 32, 101, 114, 114, 111, 114, 32, 111, 99, 99, 117, 114, 114, 101, 100, 46 >>, None, order_id) >>,   \* "An unexpected internal error occurred."
           << << "build_checkout_form_data", ecpay_params >> >>)

\* d[k] = v when the condition holds
SetIf(d, condition, k, v) == IF condition THEN DictSet(d, k, v) ELSE d

\* the statements of a try block before _build_and_return_output: the checks
\* of the input, the common parameters, and the parameters of the method
Prepared(input, now, Specific(_)) ==
  IF post_init(input) /= Returns THEN post_init(input)
  ELSE IF prepare_common_params(input, now)[1] = "raise" THEN prepare_common_params(input, now)
  ELSE << "return", Specific(prepare_common_params(input, now)[2]) >>

\* a pay_with_* method around its try block: ValidationError becomes an
\* output with its message, any other exception one with the method's message
Initiated(self, input, prepared, internal_error) ==
  LET built == build_and_return_output(self, prepared[2], input.order_id)
      raised == IF prepared[1] = "raise" THEN prepared[2] ELSE built.out[2]
  IN IF prepared[1] = "return" /\ built.out[1] = "return" THEN built
     ELSE Ended(<< "return",
                   PaymentError(IF raised.cls = "ValidationError" THEN raised.message
                                ELSE internal_error,
                                None, input.order_id) >>,
                IF prepared[1] = "return" THEN built.requests ELSE << >>)

\* PaymentInfoURL and ClientRedirectURL, which takes the place of ClientBackURL
WithInfoUrls(ecpay_params, input) ==
  LET with_info == SetIf(ecpay_params, Truthy(input.payment_info_url),
                         << 80, 97, 121, 109, 101, 110, 116, 73, 110, 102, 111, 85, 82, 76 >>, input.payment_info_url)   \* "PaymentInfoURL"
  IN IF Truthy(input.client_redirect_url_for_info)
     THEN DictDel(DictSet(with_info, << 67, 108, 105, 101, 110, 116, 82, 101, 100, 105, 114, 101, 99, 116, 85, 82, 76 >>, input.client_redirect_url_for_info),   \* "ClientRedirectURL"
                  << 67, 108, 105, 101, 110, 116, 66, 97, 99, 107, 85, 82, 76 >>)   \* "ClientBackURL"
     ELSE with_info

CreditParams(ecpay_params, input) ==
  LET p1 == DictSet(ecpay_params, ChoosePaymentKey, S(<< 67, 114, 101, 100, 105, 116 >>))   \* "Credit"
      p2 == SetIf(p1, Truthy(input.credit_installment), << 67, 114, 101, 100, 105, 116, 73, 110, 115, 116, 97, 108, 108, 109, 101, 110, 116 >>, input.credit_installment)   \* "CreditInstallment"
      p3 == SetIf(p2, Truthy(input.installment_amount), << 73, 110, 115, 116, 97, 108, 108, 109, 101, 110, 116, 65, 109, 111, 117, 110, 116 >>, input.installment_amount)   \* "InstallmentAmount"
      p4 == SetIf(p3, input.redeem = S(<< 89 >>), << 82, 101, 100, 101, 101, 109 >>, S(<< 89 >>))   \* "Y", "Redeem", "Y"
      p5 == SetIf(p4, input.union_pay /= None, << 85, 110, 105, 111, 110, 80, 97, 121 >>, input.union_pay)   \* "UnionPay"
      p6 == SetIf(p5, input.binding_card /= None, << 66, 105, 110, 100, 105, 110, 103, 67, 97, 114, 100 >>, input.binding_card)   \* "BindingCard"
      p7 == SetIf(p6, Truthy(input.merchant_member_id), << 77, 101, 114, 99, 104, 97, 110, 116, 77, 101, 109, 98, 101, 114, 73, 68 >>, input.merchant_member_id)   \* "MerchantMemberID"
      p8 == SetIf(p7, input.period_amount /= None, << 80, 101, 114, 105, 111, 100, 65, 109, 111, 117, 110, 116 >>, input.period_amount)   \* "PeriodAmount"
      p9 == SetIf(p8, Truthy(input.period_type), << 80, 101, 114, 105, 111, 100, 84, 121, 112, 101 >>, input.period_type)   \* "PeriodType"
      p10 == SetIf(p9, input.frequency /= None, << 70, 114, 101, 113, 117, 101, 110, 99, 121 >>, input.frequency)   \* "Frequency"
      p11 == SetIf(p10, input.exec_times /= None, << 69, 120, 101, 99, 84, 105, 109, 101, 115 >>, input.exec_times)   \* "ExecTimes"
  IN SetIf(p11, Truthy(input.period_return_url), << 80, 101, 114, 105, 111, 100, 82, 101, 116, 117, 114, 110, 85, 82, 76 >>, input.period_return_url)   \* "PeriodReturnURL"

pay_with_credit(self, input, now) ==
  Initiated(self, input, Prepared(input, now, LAMBDA p : CreditParams(p, input)),
            << 73, 110, 116, 101, 114, 110, 97, 108, 32, 101, 114, 114, 111, 114, 32, 112, 114, 101, 112, 97, 114, 105, 110, 103, 32, 99, 114, 101, 100, 105, 116, 32, 112, 97, 121, 109, 101, 110, 116, 46 >>)   \* "Internal error preparing credit payment."

pay_with_atm(self, input, now) ==
  Initiated(self, input,
            Prepared(input, now,
                     LAMBDA p : WithInfoUrls(SetIf(DictSet(p, ChoosePaymentKey, S(<< 65, 84, 77 >>)),   \* "ATM"
                                                   input.expire_date /= None,
                                                   << 69, 120, 112, 105, 114, 101, 68, 97, 116, 101 >>, input.expire_date),   \* "ExpireDate"
                                             input)),
            << 73, 110, 116, 101, 114, 110, 97, 108, 32, 101, 114, 114, 111, 114, 32, 112, 114, 101, 112, 97, 114, 105, 110, 103, 32, 65, 84, 77, 32, 112, 97, 121, 109, 101, 110, 116, 46 >>)   \* "Internal error preparing ATM payment."

CvsParams(ecpay_params, input) ==
  LET p1 == WithInfoUrls(SetIf(DictSet(ecpay_params, ChoosePaymentKey, S(<< 67, 86, 83 >>)),   \* "CVS"
                               input.store_expire_date /= None,
                               << 83, 116, 111, 114, 101, 69, 120, 112, 105, 114, 101, 68, 97, 116, 101 >>, input.store_expire_date),   \* "StoreExpireDate"
                         input)
      p2 == SetIf(p1, Truthy(input.desc_1), << 68, 101, 115, 99, 95, 49 >>, input.desc_1)   \* "Desc_1"
      p3 == SetIf(p2, Truthy(input.desc_2), << 68, 101, 115, 99, 95, 50 >>, input.desc_2)   \* "Desc_2"
      p4 == SetIf(p3, Truthy(input.desc_3), << 68, 101, 115, 99, 95, 51 >>, input.desc_3)   \* "Desc_3"
  IN SetIf(p4, Truthy(input.desc_4), << 68, 101, 115, 99, 95, 52 >>, input.desc_4)   \* "Desc_4"

pay_with_cvs(self, input, now) ==
  Initiated(self, input, Prepared(input, now, LAMBDA p : CvsParams(p, input)),
            << 73, 110, 116, 101, 114, 110, 97, 108, 32, 101, 114, 114, 111, 114, 32, 112, 114, 101, 112, 97, 114, 105, 110, 103, 32, 67, 86, 83, 32, 112, 97, 121, 109, 101, 110, 116, 46 >>)   \* "Internal error preparing CVS payment."

pay_with_barcode(self, input, now) ==
  Initiated(self, input,
            Prepared(input, now,
                     LAMBDA p : WithInfoUrls(SetIf(DictSet(p, ChoosePaymentKey, S(<< 66, 65, 82, 67, 79, 68, 69 >>)),   \* "BARCODE"
                                                   input.store_expire_date /= None,
                                                   << 83, 116, 111, 114, 101, 69, 120, 112, 105, 114, 101, 68, 97, 116, 101 >>, input.store_expire_date),   \* "StoreExpireDate"
                                             input)),
            << 73, 110, 116, 101, 114, 110, 97, 108, 32, 101, 114, 114, 111, 114, 32, 112, 114, 101, 112, 97, 114, 105, 110, 103, 32, 66, 97, 114, 99, 111, 100, 101, 32, 112, 97, 121, 109, 101, 110, 116, 46 >>)   \* "Internal error preparing Barcode payment."

pay_with_webatm(self, input, now) ==
  Initiated(self, input,
            Prepared(input, now, LAMBDA p : DictSet(p, ChoosePaymentKey, S(<< 87, 101, 98, 65, 84, 77 >>))),   \* "WebATM"
            << 73, 110, 116, 101, 114, 110, 97, 108, 32, 101, 114, 114, 111, 114, 32, 112, 114, 101, 112, 97, 114, 105, 110, 103, 32, 87, 101, 98, 65, 84, 77, 32, 112, 97, 121, 109, 101, 110, 116, 46 >>)   \* "Internal error preparing WebATM payment."

pay_with_applepay(self, input, now) ==
  Initiated(self, input,
            Prepared(input, now, LAMBDA p : DictSet(p, ChoosePaymentKey, S(<< 65, 112, 112, 108, 101, 80, 97, 121 >>))),   \* "ApplePay"
            << 73, 110, 116, 101, 114, 110, 97, 108, 32, 101, 114, 114, 111, 114, 32, 112, 114, 101, 112, 97, 114, 105, 110, 103, 32, 65, 112, 112, 108, 101, 80, 97, 121, 32, 112, 97, 121, 109, 101, 110, 116, 46 >>)   \* "Internal error preparing ApplePay payment."

pay_with_twqr(self, input, now) ==
  Initiated(self, input,
            Prepared(input, now, LAMBDA p : DictSet(p, ChoosePaymentKey, S(<< 84, 87, 81, 82 >>))),   \* "TWQR"
            << 73, 110, 116, 101, 114, 110, 97, 108, 32, 101, 114, 114, 111, 114, 32, 112, 114, 101, 112, 97, 114, 105, 110, 103, 32, 84, 87, 81, 82, 32, 112, 97, 121, 109, 101, 110, 116, 46 >>)   \* "Internal error preparing TWQR payment."

pay_with_bnpl(self, input, now) ==
  Initiated(self, input,
            Prepared(input, now,
                     LAMBDA p : WithInfoUrls(DictSet(p, ChoosePaymentKey, S(<< 66, 78, 80, 76 >>)), input)),   \* "BNPL"
            << 73, 110, 116, 101, 114, 110, 97, 108, 32, 101, 114, 114, 111, 114, 32, 112, 114, 101, 112, 97, 114, 105, 110, 103, 32, 66, 78, 80, 76, 32, 112, 97, 121, 109, 101, 110, 116, 46 >>)   \* "Internal error preparing BNPL payment."

\* the methods the ECPay Pay app supports
SupportedForApp == { << 67, 114, 101, 100, 105, 116 >>, << 65, 84, 77 >>, << 67, 86, 83 >>, << 66, 65, 82, 67, 79, 68, 69 >>, << 66, 78, 80, 76 >>, << 65, 76, 76 >> }   \* "Credit", "ATM", "CVS", "BARCODE", "BNPL", "ALL"

\* pay_with_ecpay_pay: the input's device_source is set before its checks
pay_with_ecpay_pay(self, input, choose_payment, now) ==
  Initiated(self, input,
            IF choose_payment \notin SupportedForApp
            THEN ValidationError(<< 85, 110, 115, 117, 112, 112, 111, 114, 116, 101, 100, 32, 67, 104, 111, 111, 115, 101, 80, 97, 121, 109, 101, 110, 116, 32, 39 >> \o choose_payment   \* "Unsupported ChoosePayment '"
                                   \o << 39, 32, 102, 111, 114, 32, 69, 67, 80, 97, 121, 32, 80, 97, 121, 32, 65, 112, 112, 46 >>)   \* "' for ECPay Pay App."
            ELSE Prepared([input EXCEPT !.device_source = S(<< 103, 119, 112, 97, 121 >>)], now,   \* "gwpay"
                          LAMBDA p : DictSet(p, ChoosePaymentKey, S(choose_payment))),
            << 73, 110, 116, 101, 114, 110, 97, 108, 32, 101, 114, 114, 111, 114, 32, 112, 114, 101, 112, 97, 114, 105, 110, 103, 32, 69, 67, 80, 97, 121, 32, 80, 97, 121, 32, 112, 97, 121, 109, 101, 110, 116, 46 >>)   \* "Internal error preparing ECPay Pay payment."

\* a list, where None may stand instead
List(l) == << "list", l >>

\* pay_all_options: ignore_methods is None or a list of method names
pay_all_options(self, input, ignore_methods, now) ==
  Initiated(self, input,
            Prepared(input, now,
                     LAMBDA p : SetIf(DictSet(p, ChoosePaymentKey, S(<< 65, 76, 76 >>)),   \* "ALL"
                                      ignore_methods /= None /\ ignore_methods[2] /= << >>,
                                      << 73, 103, 110, 111, 114, 101, 80, 97, 121, 109, 101, 110, 116 >>, S(Join(<< 35 >>, ignore_methods[2])))),   \* "IgnorePayment", "#"
            << 73, 110, 116, 101, 114, 110, 97, 108, 32, 101, 114, 114, 111, 114, 32, 112, 114, 101, 112, 97, 114, 105, 110, 103, 32, 65, 76, 76, 32, 112, 97, 121, 109, 101, 110, 116, 46 >>)   \* "Internal error preparing ALL payment."

\* ------------------------------------------------------------------------
\* EcpayAdapter: capture, refund, cancel_authorization, abandon_transaction
\* ------------------------------------------------------------------------

\* EcpayCaptureOutput, EcpayRefundOutput, EcpayCancelAuthOutput and
\* EcpayAbandonOutput, with the defaults of their optional fields
ActionOutput(cls, given) ==
  Extend([cls |-> cls, merchant_trade_no |-> None, gateway_trade_no |-> None,
          message |-> S(<< >>), error_code |-> None, raw_response |-> None],
         given)

\* _call_ecpay_action_api that passes every field on
ecpay_data_uncleaned(action, merchant_trade_no, gateway_trade_no, amount, platform_id) ==
  << << MerchantTradeNoKey, merchant_trade_no >>, << TradeNoKey, gateway_trade_no >>,
     << ActionKey, S(action) >>, << TotalAmountKey, amount >>,
     << PlatformIDKey, platform_id >> >>

\* _call_ecpay_action_api: the mapping passed to the DAO
ecpay_data_cleaned(action, merchant_trade_no, gateway_trade_no, amount, platform_id) ==
  WithoutNone(<< << MerchantTradeNoKey, merchant_trade_no >>, << TradeNoKey, gateway_trade_no >>,
                 << ActionKey, S(action) >>, << TotalAmountKey, amount >>,
                 << PlatformIDKey, platform_id >> >>)

\* the body the four methods share: the call of the DAO, the output made of
\* its response, and the outputs made of its errors
Acted(self, cls, ecpay_data, succeeded, unexpected) ==
  LET answered == self.dao.send_action_request
      response_data == answered[2][2]
      success == GetOr(response_data, RtnCodeKey, None) = S(<< 49 >>)   \* "1"
  IN Ended(<< "return",
              IF answered[1] = "return"
              THEN ActionOutput(cls,
                     [success |-> success,
                      status |-> IF success THEN succeeded ELSE "FAILED",
                      message |-> GetOr(response_data, RtnMsgKey, S(<< >>)),
                      error_code |-> IF success THEN None
                                     ELSE GetOr(response_data, RtnCodeKey, None),
                      merchant_trade_no |-> GetOr(response_data, MerchantTradeNoKey, None),
                      gateway_trade_no |-> GetOr(response_data, TradeNoKey, None),
                      raw_response |-> answered[2]])
              ELSE IF IsGatewayFailure(answered[2])
              THEN ActionOutput(cls,
                     [success |-> FALSE, status |-> "ERROR",
                      message |-> S(answered[2].message),
                      error_code |-> ErrorCode(answered[2]),
                      raw_response |-> answered[2].raw_response])
              ELSE ActionOutput(cls,
                     [success |-> FALSE, status |-> "ERROR",
                      message |-> S(unexpected \o answered[2].message)]) >>,
           << << "send_action_request", ecpay_data >> >>)

capture(self, input) ==
  Acted(self, "EcpayCaptureOutput",
        ecpay_data_cleaned(<< 67 >>, input.merchant_trade_no, input.gateway_trade_no,   \* "C"
                           input.capture_amount, input.platform_id),
        "SUCCESS", << 85, 110, 101, 120, 112, 101, 99, 116, 101, 100, 32, 67, 97, 112, 116, 117, 114, 101, 32, 101, 114, 114, 111, 114, 58, 32 >>)   \* "Unexpected Capture error: "

refund(self, input) ==
  Acted(self, "EcpayRefundOutput",
        ecpay_data_cleaned(<< 82 >>, input.merchant_trade_no, input.gateway_trade_no,   \* "R"
                           input.refund_amount, input.platform_id),
        "REFUNDED", << 85, 110, 101, 120, 112, 101, 99, 116, 101, 100, 32, 82, 101, 102, 117, 110, 100, 32, 101, 114, 114, 111, 114, 58, 32 >>)   \* "Unexpected Refund error: "

cancel_authorization(self, input) ==
  Acted(self, "EcpayCancelAuthOutput",
        ecpay_data_cleaned(<< 69 >>, input.merchant_trade_no, input.gateway_trade_no,   \* "E"
                           input.original_amount, input.platform_id),
        "CANCELED", << 85, 110, 101, 120, 112, 101, 99, 116, 101, 100, 32, 67, 97, 110, 99, 101, 108, 32, 65, 117, 116, 104, 32, 101, 114, 114, 111, 114, 58, 32 >>)   \* "Unexpected Cancel Auth error: "

abandon_transaction(self, input) ==
  Acted(self, "EcpayAbandonOutput",
        ecpay_data_cleaned(<< 78 >>, input.merchant_trade_no, input.gateway_trade_no,   \* "N"
                           input.original_amount, input.platform_id),
        "CANCELED", << 85, 110, 101, 120, 112, 101, 99, 116, 101, 100, 32, 65, 98, 97, 110, 100, 111, 110, 32, 101, 114, 114, 111, 114, 58, 32 >>)   \* "Unexpected Abandon error: "

\* ------------------------------------------------------------------------
\* The adapter, its DAO and its callers
\* ------------------------------------------------------------------------

\* the form data and the action response of the DAO of the adapter's tests
MockFormData ==
  Dict(<< << << 70, 105, 101, 108, 100, 49 >>, S(<< 86, 97, 108, 117, 101, 49 >>) >>, << CheckMacValueKey, S(<< 71, 69, 78, 69, 82, 65, 84, 69, 68, 95, 77, 65, 67 >>) >> >>)   \* "Field1", "Value1", "GENERATED_MAC"

MockActionResponse ==
  Dict(<< << RtnCodeKey, S(<< 49 >>) >>, << RtnMsgKey, S(<< 83, 117, 99, 99, 101, 115, 115 >>) >>,   \* "1", "Success"
          << MerchantTradeNoKey, S(<< 109, 116, 110, 49 >>) >>, << TradeNoKey, S(<< 116, 110, 49 >>) >> >>)   \* "mtn1", "tn1"

CaptureAmountError ==
  Dict(<< << RtnCodeKey, S(<< 49, 48, 50, 48, 48, 48, 48, 53 >>) >>, << RtnMsgKey, S(<< 67, 97, 112, 116, 117, 114, 101, 32, 97, 109, 111, 117, 110, 116, 32, 101, 114, 114, 111, 114 >>) >> >>)   \* "10200005", "Capture amount error"

\* a DAO as the adapter sees it: its base_url and what its methods answer
Dao(build_checkout_form_data_answer, send_action_request_answer) ==
  [base_url |-> TestDao.base_url,
   build_checkout_form_data |-> build_checkout_form_data_answer,
   send_action_request |-> send_action_request_answer]

\* the DAOs an adapter is built with: the one of the tests' fixture, the
\* failing ones of the tests, and DAOs that raise what an EcpayDAO raises
\* or an error of another kind
AdapterDaos ==
  { Dao(<< "return", MockFormData >>, << "return", MockActionResponse >>),
    Dao(<< "raise", PaymentGatewayBaseError("GatewayError", << 68, 65, 79, 32, 102, 97, 105, 108, 101, 100 >>, S(<< 68, 49, 48, 49 >>), None) >>,   \* "DAO failed", "D101"
        << "return", CaptureAmountError >>),
    Dao(<< "raise", PaymentGatewayBaseError("ValidationError", MissingCheckoutParams, None, None) >>,
        << "return", Dict(<< << RtnMsgKey, S(<< 78, 111, 32, 99, 111, 100, 101 >>) >> >>) >>),   \* "No code"
    Dao(<< "raise", PaymentGatewayBaseError("AuthenticationError", << 73, 110, 118, 97, 108, 105, 100, 32, 67, 104, 101, 99, 107, 77, 97, 99, 86, 97, 108, 117, 101, 32, 114, 101, 99, 101, 105, 118, 101, 100 >>, None, None) >>,   \* "Invalid CheckMacValue received"
        << "raise", PaymentGatewayBaseError("GatewayError", << 69, 67, 80, 97, 121, 32, 65, 80, 73, 32, 101, 114, 114, 111, 114, 58, 32, 82, 101, 102, 117, 110, 100, 32, 102, 97, 105, 108, 101, 100 >>, S(<< 49, 48, 50, 48, 48, 48, 52, 55 >>), None) >>),   \* "ECPay API error: Refund failed", "10200047"
    Dao(<< "raise", OtherError("RuntimeError", << 98, 111, 111, 109 >>) >>,   \* "boom"
        << "raise", OtherError("RuntimeError", << 98, 111, 111, 109 >>) >>) }   \* "boom"

\* datetime.now().strftime("%Y/%m/%d %H:%M:%S")
Dates == { << 50, 48, 50, 54, 47, 49, 49, 47, 48, 53, 32, 49, 50, 58, 48, 48, 58, 48, 48 >> }   \* "2026/11/05 12:00:00"

Amount(n) == << "int", n >>

AtmInput == EcpayAtmPaymentInput(Amount(100), S(<< 68, 97, 111, 69, 114, 114, 111, 114, 49 >>), S(<< 68, 65, 79, 32, 69, 114, 114, 111, 114, 32, 84, 101, 115, 116 >>), S(<< 117, 114, 108 >>))   \* "DaoError1", "DAO Error Test", "url"

\* the input of the tests; with 61 days; without return_url; without
\* details; with the URLs that replace ClientBackURL
AtmInputs ==
  { AtmInput,
    [AtmInput EXCEPT !.expire_date = Amount(61)],
    [AtmInput EXCEPT !.return_url = None],
    [AtmInput EXCEPT !.details = None],
    [AtmInput EXCEPT !.client_back_url = S(<< 98, 97, 99, 107 >>), !.platform_id = S(<< 80, 49 >>),   \* "back", "P1"
                     !.payment_info_url = S(<< 105, 110, 102, 111 >>),   \* "info"
                     !.client_redirect_url_for_info = S(<< 114, 101, 100, 105, 114, 101, 99, 116 >>)] }   \* "redirect"

CreditInput == EcpayCreditPaymentInput(Amount(100), S(<< 67, 114, 101, 100, 105, 116, 49 >>), S(<< 108, 49, 10, 108, 50 >>), S(<< 117, 114, 108 >>))   \* "Credit1", "url"

\* a one-time payment; a monthly one; one that runs once; instalments with
\* redeem
CreditInputs ==
  { CreditInput,
    [CreditInput EXCEPT !.period_amount = Amount(100), !.period_type = S(<< 77 >>),   \* "M"
                        !.frequency = Amount(1), !.exec_times = Amount(12),
                        !.period_return_url = S(<< 112, 101, 114, 105, 111, 100 >>)],   \* "period"
    [CreditInput EXCEPT !.period_amount = Amount(100), !.period_type = S(<< 77 >>),   \* "M"
                        !.frequency = Amount(1), !.exec_times = Amount(1)],
    [CreditInput EXCEPT !.credit_installment = S(<< 51, 44, 54 >>), !.redeem = S(<< 89 >>)] }   \* "3,6", "Y"

CvsInput == EcpayCvsPaymentInput(Amount(100), S(<< 67, 118, 115, 49 >>), S(<< 67, 86, 83 >>), S(<< 117, 114, 108 >>))   \* "Cvs1", "CVS", "url"

CvsInputs ==
  { [CvsInput EXCEPT !.desc_1 = S(<< 102, 105, 114, 115, 116, 32, 108, 105, 110, 101 >>)],   \* "first line"
    [CvsInput EXCEPT !.desc_1 = S(<< 97, 32, 108, 105, 110, 101, 32, 111, 102, 32, 50, 49, 32, 108, 101, 116, 116, 101, 114, 115, 46 >>)],   \* "a line of 21 letters."
    [CvsInput EXCEPT !.store_expire_date = Amount(43201)] }

BarcodeInput == EcpayBarcodePaymentInput(Amount(100), S(<< 66, 97, 114, 99, 111, 100, 101, 49 >>), S(<< 66, 97, 114, 99, 111, 100, 101 >>), S(<< 117, 114, 108 >>))   \* "Barcode1", "Barcode", "url"

BarcodeInputs == { BarcodeInput, [BarcodeInput EXCEPT !.store_expire_date = Amount(31)] }

WebAtmInput ==
  EcpayBasePaymentInput("EcpayWebAtmPaymentInput", Amount(100), S(<< 87, 101, 98, 65, 116, 109, 49 >>), S(<< 87, 101, 98, 65, 84, 77 >>), S(<< 117, 114, 108 >>))   \* "WebAtm1", "WebATM", "url"

WebAtmInputs == { WebAtmInput, [WebAtmInput EXCEPT !.language = S(<< 70, 82, 65 >>)] }   \* "FRA"

ApplePayInput ==
  EcpayBasePaymentInput("EcpayApplePayPaymentInput", Amount(100), S(<< 65, 112, 112, 108, 101, 49 >>), S(<< 65, 112, 112, 108, 101, 80, 97, 121 >>), S(<< 117, 114, 108 >>))   \* "Apple1", "ApplePay", "url"

ApplePayInputs == { ApplePayInput, [ApplePayInput EXCEPT !.need_extra_paid_info = S(<< 88 >>)] }   \* "X"

TwqrInput ==
  EcpayBasePaymentInput("EcpayTwqrPaymentInput", Amount(100), S(<< 84, 119, 113, 114, 49 >>), S(<< 84, 87, 81, 82 >>), S(<< 117, 114, 108 >>))   \* "Twqr1", "TWQR", "url"

TwqrInputs == { TwqrInput, [TwqrInput EXCEPT !.amount = Amount(5)] }

BnplInput == EcpayBnplPaymentInput(Amount(1000), S(<< 66, 110, 112, 108, 49 >>), S(<< 66, 78, 80, 76 >>), S(<< 117, 114, 108 >>))   \* "Bnpl1", "BNPL", "url"

BnplInputs == { BnplInput, [BnplInput EXCEPT !.amount = Amount(999)] }

BaseInput ==
  EcpayBasePaymentInput("EcpayBasePaymentInput", Amount(100), S(<< 66, 97, 115, 101, 49 >>), S(<< 65, 110, 121 >>), S(<< 117, 114, 108 >>))   \* "Base1", "Any", "url"

BaseInputs == { BaseInput, [BaseInput EXCEPT !.return_url = None] }

\* a method the app supports, and one it does not
ChoosePayments == { << 67, 114, 101, 100, 105, 116 >>, << 84, 87, 81, 82 >> }   \* "Credit", "TWQR"

IgnoreMethods == { None, List(<< << 66, 78, 80, 76 >>, << 87, 101, 98, 65, 84, 77 >> >>) }   \* "BNPL", "WebATM"

\* the inputs of the four actions, with and without PlatformID
ActionInput(amount_field, platform_id) ==
  Extend([merchant_trade_no |-> S(<< 82, 101, 102, 117, 110, 100, 77, 84, 78, 49 >>), gateway_trade_no |-> S(<< 82, 101, 102, 117, 110, 100, 84, 78, 49 >>),   \* "RefundMTN1", "RefundTN1"
          platform_id |-> platform_id],
         [f \in { amount_field } |-> Amount(100)])

ActionInputs(amount_field) == { ActionInput(amount_field, None), ActionInput(amount_field, S(<< 80, 49 >>)) }   \* "P1"

\* the adapter that holds the DAO
Adapter == [dao |-> adapter_dao]

\* a call of the adapter has ended
AdapterReturns(method, input, extra, done) ==
  /\ adapter_call' = << method, input, extra >>
  /\ dao_requests' = done.requests
  /\ adapter_outcome' = done.out
  /\ UNCHANGED adapter_dao
  /\ UNCHANGED helper_vars
  /\ UNCHANGED sign_vars
  /\ UNCHANGED factory_vars
  /\ UNCHANGED dao_vars
  /\ UNCHANGED thread_vars
  /\ UNCHANGED step_vars
  /\ UNCHANGED encode_vars

PayWithCredit ==
  \E input \in CreditInputs, now \in Dates :
    \E done \in { pay_with_credit(Adapter, input, now) } :
      AdapterReturns("pay_with_credit", input, None, done)

PayWithAtm ==
  \E input \in AtmInputs, now \in Dates :
    \E done \in { pay_with_atm(Adapter, input, now) } :
      AdapterReturns("pay_with_atm", input, None, done)

PayWithCvs ==
  \E input \in CvsInputs, now \in Dates :
    \E done \in { pay_with_cvs(Adapter, input, now) } :
      AdapterReturns("pay_with_cvs", input, None, done)

PayWithBarcode ==
  \E input \in BarcodeInputs, now \in Dates :
    \E done \in { pay_with_barcode(Adapter, input, now) } :
      AdapterReturns("pay_with_barcode", input, None, done)

PayWithWebAtm ==
  \E input \in WebAtmInputs, now \in Dates :
    \E done \in { pay_with_webatm(Adapter, input, now) } :
      AdapterReturns("pay_with_webatm", input, None, done)

PayWithApplePay ==
  \E input \in ApplePayInputs, now \in Dates :
    \E done \in { pay_with_applepay(Adapter, input, now) } :
      AdapterReturns("pay_with_applepay", input, None, done)

PayWithTwqr ==
  \E input \in TwqrInputs, now \in Dates :
    \E done \in { pay_with_twqr(Adapter, input, now) } :
      AdapterReturns("pay_with_twqr", input, None, done)

PayWithBnpl ==
  \E input \in BnplInputs, now \in Dates :
    \E done \in { pay_with_bnpl(Adapter, input, now) } :
      AdapterReturns("pay_with_bnpl", input, None, done)

PayWithEcpayPay ==
  \E input \in BaseInputs, choose_payment \in ChoosePayments, now \in Dates :
    \E done \in { pay_with_ecpay_pay(Adapter, input, choose_payment, now) } :
      AdapterReturns("pay_with_ecpay_pay", input, S(choose_payment), done)

PayAllOptions ==
  \E input \in BaseInputs, ignore_methods \in IgnoreMethods, now \in Dates :
    \E done \in { pay_all_options(Adapter, input, ignore_methods, now) } :
      AdapterReturns("pay_all_options", input, ignore_methods, done)

Capture ==
  \E input \in ActionInputs("capture_amount") :
    \E done \in { capture(Adapter, input) } :
      AdapterReturns("capture", input, None, done)

Refund ==
  \E input \in ActionInputs("refund_amount") :
    \E done \in { refund(Adapter, input) } :
      AdapterReturns("refund", input, None, done)

CancelAuthorization ==
  \E input \in ActionInputs("original_amount") :
    \E done \in { cancel_authorization(Adapter, input) } :
      AdapterReturns("cancel_authorization", input, None, done)

AbandonTransaction ==
  \E input \in ActionInputs("original_amount") :
    \E done \in { abandon_transaction(Adapter, input) } :
      AdapterReturns("abandon_transaction", input, None, done)

\* ------------------------------------------------------------------------
\* Threads that share one EcpaySecurityHelper
\* ------------------------------------------------------------------------

NumThreads == 2

Threads == 1..NumThreads

\* the signature of the callback below under the helper of TestDao
\* "62DEC8DF2EA0B19A0D8385DB1D95CE5B56EC99199CB2A41017ED1668A16387EA"
CallbackMac ==
  << 54, 50, 68, 69, 67, 56, 68, 70, 50, 69, 65, 48, 66, 49, 57, 65, 48, 68, 56, 51, 56, 53,
     68, 66, 49, 68, 57, 53, 67, 69, 53, 66, 53, 54, 69, 67, 57, 57, 49, 57, 57, 67, 66, 50,
     65, 52, 49, 48, 49, 55, 69, 68, 49, 54, 54, 56, 65, 49, 54, 51, 56, 55, 69, 65 >>

\* a callback as the gateway signs it
SignedCallback ==
  << << MerchantTradeNoKey, S(<< 116, 49 >>) >>, << RtnCodeKey, << "int", 1 >> >>,   \* "t1"
     << CheckMacValueKey, S(CallbackMac) >> >>

\* the calls a thread makes: two signatures, the verification of a signed
\* callback and of one without CheckMacValue
ThreadCalls ==
  { << "calculate_check_mac_value", << << MerchantTradeNoKey, S(<< 116, 49 >>) >> >> >>,   \* "t1"
    << "calculate_check_mac_value", << << TotalAmountKey, << "int", 100 >> >> >> >>,
    << "verify_check_mac_value", SignedCallback >>,
    << "verify_check_mac_value", DictDel(SignedCallback, CheckMacValueKey) >> }

NoLocals == [hash_key |-> None, hash_iv |-> None]

\* a thread enters a method; verify_check_mac_value returns at once when the
\* mapping has no CheckMacValue
ThreadCall(t) ==
  /\ thread_pc[t] = "idle"
  /\ \E c \in ThreadCalls :
       /\ thread_call' = [thread_call EXCEPT ![t] = c]
       /\ IF c[1] = "verify_check_mac_value" /\ ~DictHas(c[2], CheckMacValueKey)
          THEN /\ thread_pc' = [thread_pc EXCEPT ![t] = "done"]
               /\ thread_result' = [thread_result EXCEPT ![t] = << "return", FALSE >>]
          ELSE /\ thread_pc' = [thread_pc EXCEPT ![t] = "called"]
               /\ thread_result' = [thread_result EXCEPT ![t] = NoCall]
  /\ thread_local' = [thread_local EXCEPT ![t] = NoLocals]
  /\ UNCHANGED shared_helper
  /\ UNCHANGED helper_vars
  /\ UNCHANGED sign_vars
  /\ UNCHANGED factory_vars
  /\ UNCHANGED dao_vars
  /\ UNCHANGED adapter_vars
  /\ UNCHANGED step_vars
  /\ UNCHANGED encode_vars

\* full_string: the thread reads self.hash_key
ThreadReadKey(t) ==
  /\ thread_pc[t] = "called"
  /\ thread_pc' = [thread_pc EXCEPT ![t] = "key_read"]
  /\ thread_local' = [thread_local EXCEPT ![t].hash_key = shared_helper.hash_key]
  /\ UNCHANGED << shared_helper, thread_call, thread_result >>
  /\ UNCHANGED helper_vars
  /\ UNCHANGED sign_vars
  /\ UNCHANGED factory_vars
  /\ UNCHANGED dao_vars
  /\ UNCHANGED adapter_vars
  /\ UNCHANGED step_vars
  /\ UNCHANGED encode_vars

\* a read of self.hash_iv that stores another key in the helper
ThreadReadIvRekeying(t) ==
  /\ thread_pc[t] = "key_read"
  /\ thread_pc' = [thread_pc EXCEPT ![t] = "iv_read"]
  /\ thread_local' = [thread_local EXCEPT ![t].hash_iv = shared_helper.hash_iv]
  /\ shared_helper' = [shared_helper EXCEPT !.hash_key = S(<< 107 >>)]
  /\ UNCHANGED << thread_call, thread_result >>
  /\ UNCHANGED helper_vars
  /\ UNCHANGED sign_vars
  /\ UNCHANGED factory_vars
  /\ UNCHANGED dao_vars
  /\ UNCHANGED adapter_vars
  /\ UNCHANGED step_vars
  /\ UNCHANGED encode_vars

\* full_string: the thread reads self.hash_iv
ThreadReadIv(t) ==
  /\ thread_pc[t] = "key_read"
  /\ thread_pc' = [thread_pc EXCEPT ![t] = "iv_read"]
  /\ thread_local' = [thread_local EXCEPT ![t].hash_iv = shared_helper.hash_iv]
  /\ UNCHANGED << shared_helper, thread_call, thread_result >>
  /\ UNCHANGED helper_vars
  /\ UNCHANGED sign_vars
  /\ UNCHANGED factory_vars
  /\ UNCHANGED dao_vars
  /\ UNCHANGED adapter_vars
  /\ UNCHANGED step_vars
  /\ UNCHANGED encode_vars

\* the rest of the method works on the thread's locals: the signature of the
\* mapping under the secrets read, and for verify_check_mac_value its
\* comparison with the one received
ThreadFinish(t) ==
  /\ thread_pc[t] = "iv_read"
  /\ thread_pc' = [thread_pc EXCEPT ![t] = "done"]
  /\ \E result \in { IF thread_call[t][1] = "calculate_check_mac_value"
                     THEN << "return", calculate_check_mac_value(thread_local[t], thread_call[t][2]) >>
                     ELSE verify_check_mac_value(thread_local[t], thread_call[t][2]) } :
       thread_result' = [thread_result EXCEPT ![t] = result]
  /\ UNCHANGED << shared_helper, thread_call, thread_local >>
  /\ UNCHANGED helper_vars
  /\ UNCHANGED sign_vars
  /\ UNCHANGED factory_vars
  /\ UNCHANGED dao_vars
  /\ UNCHANGED adapter_vars
  /\ UNCHANGED step_vars
  /\ UNCHANGED encode_vars

\* the caller takes the result; the thread is free for its next call
ThreadReturn(t) ==
  /\ thread_pc[t] = "done"
  /\ thread_pc' = [thread_pc EXCEPT ![t] = "idle"]
  /\ thread_call' = [thread_call EXCEPT ![t] = NoCall]
  /\ thread_result' = [thread_result EXCEPT ![t] = NoCall]
  /\ thread_local' = [thread_local EXCEPT ![t] = NoLocals]
  /\ UNCHANGED shared_helper
  /\ UNCHANGED helper_vars
  /\ UNCHANGED sign_vars
  /\ UNCHANGED factory_vars
  /\ UNCHANGED dao_vars
  /\ UNCHANGED adapter_vars
  /\ UNCHANGED step_vars
  /\ UNCHANGED encode_vars

\* ------------------------------------------------------------------------
\* calculate_check_mac_value and verify_check_mac_value, line by line
\* ------------------------------------------------------------------------

\* the locals of the running call, before any is assigned
NoStepLocals ==
  [params |-> << >>, received_mac |-> None, params_copy |-> << >>, sorted_params |-> << >>,
   param_string |-> << >>, full_string |-> << >>, encoded_string |-> << >>,
   check_mac_value |-> None]

\* every int value replaced by the str of its decimal digits: the mapping as
\* it comes back from the wire
Stringified(d) ==
  [i \in 1..Len(d) |-> IF d[i][2][1] = "int" THEN << d[i][1], S(IntStr(d[i][2][2])) >> ELSE d[i]]

\* values that hold the characters the parameter string is built with, the
\* amounts of TEST_PARAMS, a value outside ASCII
SeparatorParams ==
  { << << << 97 >>, S(<< 49, 38, 98, 61, 50 >>) >> >>,   \* "a", "1&b=2"
    << << << 97 >>, S(<< 49 >>) >>, << << 98 >>, S(<< 50 >>) >> >>,   \* "a", "1", "b", "2"
    << << << 97 >>, S(<< 49, 38, 98, 61, 50 >>) >>, << << 98 >>, S(<< 50 >>) >> >>,   \* "a", "1&b=2", "b", "2"
    << << << 98 >>, S(<< 50 >>) >>, << << 97 >>, S(<< 49 >>) >> >> }   \* "b", "2", "a", "1"

AmountParams ==
  { << << TotalAmountKey, << "int", 150 >> >>, << EncryptTypeKey, << "int", 1 >> >> >>,
    << << TotalAmountKey, << "int", 150 >> >>, << TradeDescKey, S(<< 84, 101, 115, 116, 32, 68, 101, 115, 99, 114, 105, 112, 116, 105, 111, 110 >>) >> >>,   \* "Test Description"
    << << ItemNameKey, S(<< 21697, 38917 >>) >>, << TotalAmountKey, << "int", 0 - 5 >> >> >> }

\* mappings that bring a CheckMacValue of their own: last, first, not a str
ReservedKeyParams ==
  { Signed(<< << << 97 >>, S(<< 120 >>) >> >>, StaleMac),   \* "a", "x"
    << << CheckMacValueKey, StaleMac >>, << << 66 >>, << "int", 1 >> >> >>,   \* "B"
    << << CheckMacValueKey, << "int", 0 >> >> >>,
    Signed(<< << << 97 >>, S(<< 120 >>) >>, << << 66 >>, << "int", 1 >> >> >>, S(<< 97, 61, 120 >>)) }   \* "a", "x", "B", "a=x"

\* the mappings calculate_check_mac_value is called on
StepParams ==
  ParamSets \cup { Stringified(d) : d \in ParamSets }
    \cup SeparatorParams \cup AmountParams \cup { Stringified(d) : d \in AmountParams }
    \cup ReservedKeyParams

\* the params of the running calculate_check_mac_value: the caller's mapping
\* itself, or the copy verify_check_mac_value passes (line 52)
CalleeParams ==
  IF step_call[1] = "calculate_check_mac_value" THEN arg_now ELSE step_local.params

\* lines 46-52: no CheckMacValue, return False; else read it and pass a copy
\* of received_params to calculate_check_mac_value
StepReceive ==
  /\ step_line = "called"
  /\ step_call[1] = "verify_check_mac_value"
  /\ IF ~DictHas(arg_now, CheckMacValueKey)
     THEN /\ step_line' = "returned"
          /\ step_result' = << "return", FALSE >>
          /\ UNCHANGED step_local
     ELSE /\ step_line' = "received"
          /\ step_local' = [step_local EXCEPT !.received_mac = DictGet(arg_now, CheckMacValueKey),
                                              !.params = arg_now]
          /\ UNCHANGED step_result
  /\ UNCHANGED << step_call, arg_now, step_history >>
  /\ UNCHANGED helper_vars
  /\ UNCHANGED sign_vars
  /\ UNCHANGED factory_vars
  /\ UNCHANGED dao_vars
  /\ UNCHANGED adapter_vars
  /\ UNCHANGED thread_vars
  /\ UNCHANGED encode_vars

\* lines 20-22 without the del
StepCopyKeeping ==
  /\ \/ step_line = "called" /\ step_call[1] = "calculate_check_mac_value"
     \/ step_line = "received"
  /\ step_line' = "copied"
  /\ step_local' = [step_local EXCEPT !.params_copy = CalleeParams]
  /\ UNCHANGED << step_call, arg_now, step_result, step_history >>
  /\ UNCHANGED helper_vars
  /\ UNCHANGED sign_vars
  /\ UNCHANGED factory_vars
  /\ UNCHANGED dao_vars
  /\ UNCHANGED adapter_vars
  /\ UNCHANGED thread_vars
  /\ UNCHANGED encode_vars

\* lines 20-22 with the del done on params itself
StepCopyInPlace ==
  /\ \/ step_line = "called" /\ step_call[1] = "calculate_check_mac_value"
     \/ step_line = "received"
  /\ step_line' = "copied"
  /\ step_local' = [step_local EXCEPT !.params_copy = DictDel(CalleeParams, CheckMacValueKey),
                                      !.params = DictDel(@, CheckMacValueKey)]
  /\ arg_now' = IF step_call[1] = "calculate_check_mac_value"
                THEN DictDel(arg_now, CheckMacValueKey) ELSE arg_now
  /\ UNCHANGED << step_call, step_result, step_history >>
  /\ UNCHANGED helper_vars
  /\ UNCHANGED sign_vars
  /\ UNCHANGED factory_vars
  /\ UNCHANGED dao_vars
  /\ UNCHANGED adapter_vars
  /\ UNCHANGED thread_vars
  /\ UNCHANGED encode_vars

\* lines 20-22: params_copy = params.copy(), and CheckMacValue deleted from it
StepCopy ==
  /\ \/ step_line = "called" /\ step_call[1] = "calculate_check_mac_value"
     \/ step_line = "received"
  /\ step_line' = "copied"
  /\ step_local' = [step_local EXCEPT !.params_copy = DictDel(CalleeParams, CheckMacValueKey)]
  /\ UNCHANGED << step_call, arg_now, step_result, step_history >>
  /\ UNCHANGED helper_vars
  /\ UNCHANGED sign_vars
  /\ UNCHANGED factory_vars
  /\ UNCHANGED dao_vars
  /\ UNCHANGED adapter_vars
  /\ UNCHANGED thread_vars
  /\ UNCHANGED encode_vars

\* line 25: sorted_params
StepSort ==
  /\ step_line = "copied"
  /\ step_line' = "sorted"
  /\ step_local' = [step_local EXCEPT !.sorted_params = SortedParams(step_local.params_copy)]
  /\ UNCHANGED << step_call, arg_now, step_result, step_history >>
  /\ UNCHANGED helper_vars
  /\ UNCHANGED sign_vars
  /\ UNCHANGED factory_vars
  /\ UNCHANGED dao_vars
  /\ UNCHANGED adapter_vars
  /\ UNCHANGED thread_vars
  /\ UNCHANGED encode_vars

\* line 28 with the keys in lower case, as they were compared
StepJoinLowerKeys ==
  /\ step_line = "sorted"
  /\ step_line' = "joined"
  /\ step_local' = [step_local EXCEPT !.param_string =
       ParamString([i \in 1..Len(step_local.sorted_params) |->
                      << Lower(step_local.sorted_params[i][1]), step_local.sorted_params[i][2] >>])]
  /\ UNCHANGED << step_call, arg_now, step_result, step_history >>
  /\ UNCHANGED helper_vars
  /\ UNCHANGED sign_vars
  /\ UNCHANGED factory_vars
  /\ UNCHANGED dao_vars
  /\ UNCHANGED adapter_vars
  /\ UNCHANGED thread_vars
  /\ UNCHANGED encode_vars

\* line 28: param_string
StepJoin ==
  /\ step_line = "sorted"
  /\ step_line' = "joined"
  /\ step_local' = [step_local EXCEPT !.param_string = ParamString(step_local.sorted_params)]
  /\ UNCHANGED << step_call, arg_now, step_result, step_history >>
  /\ UNCHANGED helper_vars
  /\ UNCHANGED sign_vars
  /\ UNCHANGED factory_vars
  /\ UNCHANGED dao_vars
  /\ UNCHANGED adapter_vars
  /\ UNCHANGED thread_vars
  /\ UNCHANGED encode_vars

\* line 31: full_string
StepFull ==
  /\ step_line = "joined"
  /\ step_line' = "full"
  /\ step_local' = [step_local EXCEPT !.full_string = FullString(helper, step_local.param_string)]
  /\ UNCHANGED << step_call, arg_now, step_result, step_history >>
  /\ UNCHANGED helper_vars
  /\ UNCHANGED sign_vars
  /\ UNCHANGED factory_vars
  /\ UNCHANGED dao_vars
  /\ UNCHANGED adapter_vars
  /\ UNCHANGED thread_vars
  /\ UNCHANGED encode_vars

\* the two hexadecimal digits of every %XX in lower case, the rest as it is
LowerEscapes(s) ==
  [i \in 1..Len(s) |-> IF (i > 1 /\ s[i - 1] = 37) \/ (i > 2 /\ s[i - 2] = 37)
                       THEN LowerChar(s[i]) ELSE s[i]]

\* line 34 lower-casing the escapes alone
StepEncodeLowerEscapes ==
  /\ step_line = "full"
  /\ step_line' = "encoded"
  /\ step_local' = [step_local EXCEPT !.encoded_string =
                      LowerEscapes(ecpay_url_encode(step_local.full_string))]
  /\ UNCHANGED << step_call, arg_now, step_result, step_history >>
  /\ UNCHANGED helper_vars
  /\ UNCHANGED sign_vars
  /\ UNCHANGED factory_vars
  /\ UNCHANGED dao_vars
  /\ UNCHANGED adapter_vars
  /\ UNCHANGED thread_vars
  /\ UNCHANGED encode_vars

\* line 34: encoded_string
StepEncode ==
  /\ step_line = "full"
  /\ step_line' = "encoded"
  /\ step_local' = [step_local EXCEPT !.encoded_string = EncodedString(step_local.full_string)]
  /\ UNCHANGED << step_call, arg_now, step_result, step_history >>
  /\ UNCHANGED helper_vars
  /\ UNCHANGED sign_vars
  /\ UNCHANGED factory_vars
  /\ UNCHANGED dao_vars
  /\ UNCHANGED adapter_vars
  /\ UNCHANGED thread_vars
  /\ UNCHANGED encode_vars

\* lines 37-40: check_mac_value
StepHash ==
  /\ step_line = "encoded"
  /\ step_line' = "hashed"
  /\ \E check_mac_value \in { S(Upper(HexDigest(Utf8Bytes(step_local.encoded_string)))) } :
       step_local' = [step_local EXCEPT !.check_mac_value = check_mac_value]
  /\ UNCHANGED << step_call, arg_now, step_result, step_history >>
  /\ UNCHANGED helper_vars
  /\ UNCHANGED sign_vars
  /\ UNCHANGED factory_vars
  /\ UNCHANGED dao_vars
  /\ UNCHANGED adapter_vars
  /\ UNCHANGED thread_vars
  /\ UNCHANGED encode_vars

\* line 42, and for verify_check_mac_value line 55 after it
StepReturn ==
  /\ step_line = "hashed"
  /\ step_line' = "returned"
  /\ step_result' = IF step_call[1] = "calculate_check_mac_value"
                    THEN << "return", step_local.check_mac_value >>
                    ELSE compare_digest(step_local.received_mac, step_local.check_mac_value)
  /\ UNCHANGED << step_call, arg_now, step_local, step_history >>
  /\ UNCHANGED helper_vars
  /\ UNCHANGED sign_vars
  /\ UNCHANGED factory_vars
  /\ UNCHANGED dao_vars
  /\ UNCHANGED adapter_vars
  /\ UNCHANGED thread_vars
  /\ UNCHANGED encode_vars

\* what reaches the verifier once p was signed with m: p with the signature,
\* the same after the wire has made every value a str, p with no
\* signature, p with another one
WireParams(p, m) ==
  { Signed(p, m), Signed(Stringified(p), m), DictDel(p, CheckMacValueKey), Signed(p, StaleMac) }

\* the caller of calculate_check_mac_value goes on to verify_check_mac_value
StepVerify ==
  /\ step_line = "returned"
  /\ step_call[1] = "calculate_check_mac_value"
  /\ \E r \in WireParams(arg_now, step_result[2]) :
       /\ step_call' = << "verify_check_mac_value", r >>
       /\ arg_now' = r
  /\ step_history' = Append(step_history, << step_call[1], step_call[2], step_result >>)
  /\ step_line' = "called"
  /\ step_local' = NoStepLocals
  /\ step_result' = NoCall
  /\ UNCHANGED helper_vars
  /\ UNCHANGED sign_vars
  /\ UNCHANGED factory_vars
  /\ UNCHANGED dao_vars
  /\ UNCHANGED adapter_vars
  /\ UNCHANGED thread_vars
  /\ UNCHANGED encode_vars

\* ------------------------------------------------------------------------
\* Calls of ecpay_url_encode
\* ------------------------------------------------------------------------

MaxTextLen == 2

\* a letter of each case, a digit, the characters of safe, the space, the
\* characters of the parameter string and of a URL, and characters of two,
\* three and four UTF-8 bytes
EncodeChars ==
  { 97, 90, 48, 45, 95, 46, 126, 33, 42, 40, 41, 32, 61, 38, 43, 37, 35, 47, 58,
    233, 20013, 128512 }

RECURSIVE TextsOfLen(_)
TextsOfLen(n) ==
  IF n = 0 THEN { << >> } ELSE { Append(t, c) : t \in TextsOfLen(n - 1), c \in EncodeChars }

EncodeTexts == UNION { TextsOfLen(n) : n \in 0..MaxTextLen }

\* ecpay_url_encode(encode_text)
EcpayUrlEncode ==
  /\ encode_result = None
  /\ encode_result' = S(ecpay_url_encode(encode_text))
  /\ UNCHANGED encode_text
  /\ UNCHANGED helper_vars
  /\ UNCHANGED sign_vars
  /\ UNCHANGED factory_vars
  /\ UNCHANGED dao_vars
  /\ UNCHANGED adapter_vars
  /\ UNCHANGED thread_vars
  /\ UNCHANGED step_vars

\* ------------------------------------------------------------------------
\* EcpayAdapter.query_transaction
\* ------------------------------------------------------------------------

PaymentTypeField == << 80, 97, 121, 109, 101, 110, 116, 84, 121, 112, 101 >>   \* "PaymentType"
TradeAmtKey == << 84, 114, 97, 100, 101, 65, 109, 116 >>   \* "TradeAmt"

\* _map_ecpay_status that does not look at the payment type
map_ecpay_status_by_code(status_code, payment_type_str) ==
  IF status_code = S(<< 49 >>) THEN "SUCCESS"   \* "1"
  ELSE IF status_code = S(<< 48 >>) THEN "FAILED"   \* "0"
  ELSE IF status_code = S(<< 49, 48, 50, 48, 48, 48, 57, 53 >>) THEN "FAILED"   \* "10200095"
  ELSE IF status_code = S(<< 50 >>) THEN "PENDING"   \* "2"
  ELSE IF status_code = S(<< 49, 48, 49, 48, 48, 48, 55, 51 >>) THEN "PENDING"   \* "10100073"
  ELSE "UNKNOWN"

\* _map_ecpay_status: the name of the PaymentStatus
map_ecpay_status(status_code, payment_type_str) ==
  IF status_code = S(<< 49 >>) THEN "SUCCESS"   \* "1"
  ELSE IF status_code = S(<< 48 >>)   \* "0"
  THEN IF Truthy(payment_type_str)
            /\ \/ StartsWith(payment_type_str[2], << 65, 84, 77 >>)   \* "ATM"
               \/ StartsWith(payment_type_str[2], << 67, 86, 83 >>)   \* "CVS"
               \/ StartsWith(payment_type_str[2], << 66, 65, 82, 67, 79, 68, 69 >>)   \* "BARCODE"
       THEN "PENDING" ELSE "FAILED"
  ELSE IF status_code = S(<< 49, 48, 50, 48, 48, 48, 57, 53 >>) THEN "FAILED"   \* "10200095"
  ELSE IF status_code = S(<< 50 >>)   \* "2"
  THEN IF Truthy(payment_type_str) /\ StartsWith(payment_type_str[2], << 66, 78, 80, 76 >>)   \* "BNPL"
       THEN "APPLYING" ELSE "PENDING"
  ELSE IF status_code = S(<< 49, 48, 49, 48, 48, 48, 55, 51 >>) THEN "PENDING"   \* "10100073"
  ELSE "UNKNOWN"

\* QueryInput
QueryInput(order_id, gateway_specific_params) ==
  [order_id |-> order_id, gateway_trade_no |-> None,
   gateway_specific_params |-> gateway_specific_params]

\* QueryOutput: the fields given, and the defaults of the others
QueryOutput(given) ==
  Extend([success |-> FALSE, transactions |-> << >>, message |-> S(<< >>), error_code |-> None,
          raw_response |-> None, total_records |-> None, current_page |-> None,
          total_pages |-> None],
         given)

IsDigits(t) == t /= << >> /\ \A i \in 1..Len(t) : t[i] >= 48 /\ t[i] =< 57

\* safe_int(val) or 0, of a str or None
SafeIntOrZero(val) ==
  IF val[1] = "str" /\ IsDigits(val[2]) THEN << "int", ParseInt(val[2]) >> ELSE << "int", 0 >>

\* safe_float(val), of None, of a str of digits, or of a str that is no number
SafeFloat(val) ==
  IF val[1] = "str" /\ IsDigits(val[2]) THEN << "float", ParseInt(val[2]) >> ELSE None

\* the TransactionRecord of a response
TransactionRecord(response_data) ==
  [gateway_trade_no |-> GetOr(response_data, TradeNoKey, S(<< >>)),
   status |-> map_ecpay_status(GetOr(response_data, TradeStatusKey, None),
                               GetOr(response_data, PaymentTypeField, None)),
   amount |-> SafeIntOrZero(GetOr(response_data, TradeAmtKey, None)),
   currency |-> S(<< 84, 87, 68 >>),   \* "TWD"
   raw_data |-> Dict(response_data),
   order_id |-> GetOr(response_data, MerchantTradeNoKey, None),
   payment_type |-> GetOr(response_data, PaymentTypeField, None),
   transaction_time |-> GetOr(response_data, << 84, 114, 97, 100, 101, 68, 97, 116, 101 >>, None),   \* "TradeDate"
   payment_time |-> GetOr(response_data, << 80, 97, 121, 109, 101, 110, 116, 68, 97, 116, 101 >>, None),   \* "PaymentDate"
   store_id |-> GetOr(response_data, << 83, 116, 111, 114, 101, 73, 68 >>, None),   \* "StoreID"
   handling_charge |-> SafeFloat(GetOr(response_data, << 72, 97, 110, 100, 108, 105, 110, 103, 67, 104, 97, 114, 103, 101 >>, None)),   \* "HandlingCharge"
   payment_type_charge_fee |-> SafeFloat(GetOr(response_data, << 80, 97, 121, 109, 101, 110, 116, 84, 121, 112, 101, 67, 104, 97, 114, 103, 101, 70, 101, 101 >>, None)),   \* "PaymentTypeChargeFee"
   auth_code |-> GetOr(response_data, << 97, 117, 116, 104, 95, 99, 111, 100, 101 >>, None),   \* "auth_code"
   card_last_four |-> GetOr(response_data, << 99, 97, 114, 100, 52, 110, 111 >>, None),   \* "card4no"
   card_first_six |-> GetOr(response_data, << 99, 97, 114, 100, 54, 110, 111 >>, None)]   \* "card6no"

StatusNames ==
  [SUCCESS |-> << 83, 85, 67, 67, 69, 83, 83 >>, PENDING |-> << 80, 69, 78, 68, 73, 78, 71 >>, FAILED |-> << 70, 65, 73, 76, 69, 68 >>,   \* "SUCCESS", "PENDING", "FAILED"
   APPLYING |-> << 65, 80, 80, 76, 89, 73, 78, 71 >>, UNKNOWN |-> << 85, 78, 75, 78, 79, 87, 78 >>]   \* "APPLYING", "UNKNOWN"

\* query_transaction
query_transaction(self, input) ==
  LET platform_id == GetOr(input.gateway_specific_params[2], PlatformIDKey, None)
      ecpay_data == << << MerchantTradeNoKey, input.order_id >> >>
                      \o (IF Truthy(platform_id) THEN << << PlatformIDKey, platform_id >> >> ELSE << >>)
      answered == self.dao.send_query_order_request
      response_data == answered[2][2]
      requests == << << "send_query_order_request", ecpay_data >> >>
  IN IF ~Truthy(input.order_id)
     THEN Ended(<< "return", QueryOutput([success |-> FALSE,
                   message |-> S(<< 69, 67, 80, 97, 121, 32, 113, 117, 101, 114, 121, 32, 114, 101, 113, 117, 105, 114, 101, 115, 32, 39, 111, 114, 100, 101, 114, 95, 105, 100, 39, 32, 40, 77, 101, 114, 99, 104, 97, 110, 116, 84, 114, 97, 100, 101, 78, 111, 41, 46 >>)]) >>,   \* "ECPay query requires 'order_id' (MerchantTradeNo)."
                << >>)
     ELSE IF answered[1] = "raise" /\ answered[2].cls = "GatewayError"
     THEN Ended(<< "return", QueryOutput([success |-> FALSE, message |-> S(answered[2].message),
                                           error_code |-> ErrorCode(answered[2]),
                                           raw_response |-> answered[2].raw_response]) >>,
                requests)
     ELSE IF answered[1] = "raise"
     THEN Ended(<< "return", QueryOutput([success |-> FALSE,
                   message |-> S(<< 85, 110, 101, 120, 112, 101, 99, 116, 101, 100, 32, 113, 117, 101, 114, 121, 32, 101, 114, 114, 111, 114, 58, 32 >> \o answered[2].message)]) >>,   \* "Unexpected query error: "
                requests)
     ELSE IF DictHas(response_data, TradeStatusKey)
     THEN Ended(<< "return",
                   QueryOutput([success |-> TRUE,
                                transactions |-> << TransactionRecord(response_data) >>,
                                message |-> S(<< 84, 114, 97, 110, 115, 97, 99, 116, 105, 111, 110, 32, 115, 116, 97, 116, 117, 115, 58, 32 >>   \* "Transaction status: "
                                              \o StatusNames[TransactionRecord(response_data).status]),
                                raw_response |-> answered[2]]) >>,
                requests)
     ELSE Ended(<< "return",
                   QueryOutput([success |-> FALSE,
                                message |-> GetOr(response_data, RtnMsgKey,
                                                  S(<< 81, 117, 101, 114, 121, 32, 102, 97, 105, 108, 101, 100, 58, 32, 84, 114, 97, 100, 101, 83, 116, 97, 116, 117, 115, 32, 109, 105, 115, 115, 105, 110, 103, 46 >>)),   \* "Query failed: TradeStatus missing."
                                error_code |-> GetOr(response_data, RtnCodeKey, None),
                                raw_response |-> answered[2]]) >>,
                requests)

\* the DAO of the tests' fixture, answering a query with the answer given
QueryDao(send_query_order_request_answer) ==
  Extend(Dao(<< "return", MockFormData >>, << "return", MockActionResponse >>),
         [send_query_order_request |-> send_query_order_request_answer])

\* the entries of a mapping whose value is not Absent
Present(d) == SelectSeq(d, LAMBDA e : e[2] /= Absent)

\* the codes and payment types of the answers: those _map_ecpay_status
\* names, another code, None, and no entry at all
TradeStatuses ==
  { S(<< 49 >>), S(<< 48 >>), S(<< 49, 48, 50, 48, 48, 48, 57, 53 >>), S(<< 50 >>), S(<< 49, 48, 49, 48, 48, 48, 55, 51 >>), S(<< 57 >>), None, Absent }   \* "1", "0", "10200095", "2", "10100073", "9"

PaymentTypes ==
  { S(<< 65, 84, 77, 95, 66, 79, 84 >>), S(<< 67, 86, 83, 95, 67, 86, 83 >>), S(<< 66, 65, 82, 67, 79, 68, 69, 95, 66, 65, 82, 67, 79, 68, 69 >>), S(<< 66, 78, 80, 76, 95, 85, 82, 73, 67, 72 >>),   \* "ATM_BOT", "CVS_CVS", "BARCODE_BARCODE", "BNPL_URICH"
    S(<< 67, 114, 101, 100, 105, 116, 95, 67, 114, 101, 100, 105, 116, 67, 97, 114, 100 >>), S(<< 87, 101, 98, 65, 84, 77, 95, 84, 65, 73, 83, 72, 73, 78 >>), S(<< >>), Absent }   \* "Credit_CreditCard", "WebATM_TAISHIN"

QueryAnswer(trade_status, payment_type) ==
  Dict(Present(<< << MerchantTradeNoKey, S(<< 81, 117, 101, 114, 121, 83, 117, 99, 99, 101, 115, 115, 49 >>) >>, << TradeNoKey, S(<< 84, 78, 95, 81, 83, 85, 67, 67, 69, 83, 83 >>) >>,   \* "QuerySuccess1", "TN_QSUCCESS"
                  << TradeAmtKey, S(<< 49, 53, 48 >>) >>, << PaymentTypeField, payment_type >>,   \* "150"
                  << TradeStatusKey, trade_status >>, << RtnMsgKey, S(<< 81, 117, 101, 114, 121, 32, 83, 117, 99, 99, 101, 115, 115 >>) >> >>))   \* "Query Success"

\* the answer of test_query_transaction_paid
PaidAnswer ==
  Dict(<< << MerchantTradeNoKey, S(<< 81, 117, 101, 114, 121, 80, 97, 105, 100, 49 >>) >>, << TradeNoKey, S(<< 84, 78, 95, 80, 65, 73, 68 >>) >>,   \* "QueryPaid1", "TN_PAID"
          << TradeAmtKey, S(<< 50, 48, 48 >>) >>, << PaymentTypeField, S(<< 67, 114, 101, 100, 105, 116, 95, 67, 114, 101, 100, 105, 116, 67, 97, 114, 100 >>) >>,   \* "200", "Credit_CreditCard"
          << TradeStatusKey, S(<< 49 >>) >>, << << 80, 97, 121, 109, 101, 110, 116, 68, 97, 116, 101 >>, S(<< 50, 48, 50, 51, 47, 49, 49, 47, 49, 53, 32, 49, 52, 58, 48, 53, 58, 48, 48 >>) >>,   \* "1", "PaymentDate", "2023/11/15 14:05:00"
          << << 84, 114, 97, 100, 101, 68, 97, 116, 101 >>, S(<< 50, 48, 50, 51, 47, 49, 49, 47, 49, 53, 32, 49, 52, 58, 48, 52, 58, 48, 48 >>) >>, << << 97, 117, 116, 104, 95, 99, 111, 100, 101 >>, S(<< 55, 55, 55, 55, 55, 55 >>) >>,   \* "TradeDate", "2023/11/15 14:04:00", "auth_code", "777777"
          << << 99, 97, 114, 100, 52, 110, 111 >>, S(<< 49, 49, 49, 49 >>) >>, << << 72, 97, 110, 100, 108, 105, 110, 103, 67, 104, 97, 114, 103, 101 >>, S(<< 53 >>) >>,   \* "card4no", "1111", "HandlingCharge", "5"
          << RtnMsgKey, S(<< 83, 117, 99, 99, 101, 115, 115 >>) >>, << CheckMacValueKey, S(<< 86, 65, 76, 73, 68, 77, 65, 67 >>) >> >>)   \* "Success", "VALIDMAC"

\* the DAOs a querying adapter is built with
QueryDaos ==
  { QueryDao(<< "return", QueryAnswer(s, t) >>) : s \in TradeStatuses, t \in PaymentTypes }
    \cup { QueryDao(<< "return", PaidAnswer >>),
           QueryDao(<< "raise", PaymentGatewayBaseError("GatewayError", << 81, 117, 101, 114, 121, 32, 102, 97, 105, 108, 101, 100 >>, S(<< 69, 67, 80, 49, 48, 49 >>), None) >>),   \* "Query failed", "ECP101"
           QueryDao(<< "raise", PaymentGatewayBaseError("ValidationError", QueryNeedsTradeNo, None, None) >>),
           QueryDao(<< "raise", OtherError("RuntimeError", << 98, 111, 111, 109 >>) >>) }   \* "boom"

\* the query of the tests, one of a platform's merchant, one with no order_id
QueryInputs ==
  { QueryInput(S(<< 81, 117, 101, 114, 121, 83, 117, 99, 99, 101, 115, 115, 49 >>), Dict(<< >>)),   \* "QuerySuccess1"
    QueryInput(S(<< 81, 117, 101, 114, 121, 83, 117, 99, 99, 101, 115, 115, 49 >>), Dict(<< << PlatformIDKey, S(<< 80, 49 >>) >> >>)),   \* "QuerySuccess1", "P1"
    QueryInput(None, Dict(<< >>)) }

QueryTransaction ==
  \E input \in QueryInputs :
    \E done \in { query_transaction(Adapter, input) } :
      AdapterReturns("query_transaction", input, None, done)

\* ------------------------------------------------------------------------
\* Specifications
\* ------------------------------------------------------------------------

EcpayConfigs ==
  { [NoConfig EXCEPT !.merchant_id = m, !.hash_key = k, !.hash_iv = v, !.is_sandbox = s]
      : m \in { Absent, S(<< 109 >>) },
        k \in { Absent, S(<< >>), S(<< 107 >>) },
        v \in { Absent, S(<< >>), S(<< 118 >>) },
        s \in { Absent, << "bool", FALSE >> } }

TappayConfigs ==
  { NoConfig,
    [NoConfig EXCEPT !.merchant_id = S(<< 109 >>)],
    [NoConfig EXCEPT !.merchant_id = S(<< 109 >>), !.partner_key = S(<< 112 >>),
                     !.is_sandbox = << "bool", FALSE >>] }

Configs ==
  { [sdk_settings |-> [default_timeout |-> t], ecpay |-> e, tappay |-> p, missingpay |-> NoConfig]
      : t \in { Absent, << "int", 20 >> }, e \in EcpayConfigs \cup { NoConfig }, p \in TappayConfigs }

TestConfig ==
  [sdk_settings |-> [default_timeout |-> << "int", 20 >>],
   ecpay |-> [NoConfig EXCEPT !.merchant_id = S(<< 109 >>), !.hash_key = S(<< 107 >>),
                              !.hash_iv = S(<< 118 >>)],
   tappay |-> [NoConfig EXCEPT !.merchant_id = S(<< 109 >>), !.partner_key = S(<< 112 >>),
                               !.is_sandbox = << "bool", FALSE >>],
   missingpay |-> NoConfig]

InitHelper ==
  /\ helper = NoHelper
  /\ init_args = << None, None >>
  /\ init_result = "none"
  /\ pc = "new"
  /\ params = << >>
  /\ mac = None
  /\ params2 = << >>
  /\ mac2 = None
  /\ received = << >>
  /\ verdict = NoCall

InitFactory ==
  /\ security_helper_cache = << >>
  /\ dao_cache = << >>
  /\ adapter_cache = << >>
  /\ created = [helper |-> 0, dao |-> 0, adapter |-> 0]
  /\ call = NoCall
  /\ outcome = NoCall

InitDao ==
  /\ dao_pc = "start"
  /\ dao_call = NoCall
  /\ dao_data = << >>
  /\ helper_calls = << >>
  /\ posted = << >>
  /\ gateway_reply = NoReply
  /\ dao_outcome = NoCall

\* no adapter has been called
NoAdapterCall ==
  /\ adapter_call = NoCall
  /\ dao_requests = << >>
  /\ adapter_outcome = NoCall

InitAdapter == adapter_dao = NoCall /\ NoAdapterCall

\* the threads before their first call
IdleThreads ==
  /\ thread_pc = [t \in Threads |-> "idle"]
  /\ thread_call = [t \in Threads |-> NoCall]
  /\ thread_local = [t \in Threads |-> NoLocals]
  /\ thread_result = [t \in Threads |-> NoCall]

InitThreads == shared_helper = NoHelper /\ IdleThreads

\* no call is followed line by line
InitSteps ==
  /\ step_call = NoCall
  /\ arg_now = << >>
  /\ step_line = "none"
  /\ step_local = NoStepLocals
  /\ step_result = NoCall
  /\ step_history = << >>

InitEncode == encode_text = << >> /\ encode_result = None

\* one caller with one helper
Init == InitHelper /\ InitFactory /\ InitDao /\ InitAdapter /\ InitThreads /\ InitSteps /\ InitEncode /\ config = TestConfig

Next ==
  \/ \E k \in SecretKeys, v \in SecretIVs : Construct(k, v)
  \/ Calculate
  \/ CalculateAgain
  \/ Verify

Spec == Init /\ [][Next]_vars

\* a factory on any configuration, and a caller that builds a helper itself
FactoryInit == InitHelper /\ InitFactory /\ InitDao /\ InitAdapter /\ InitThreads /\ InitSteps /\ InitEncode /\ config \in Configs

FactoryNext ==
  \/ \E k \in SecretKeys, v \in SecretIVs : Construct(k, v)
  \/ \E g \in GatewayNames : GetAdapter(g)
  \/ \E g \in GatewayNames : GetTransactionAdapter(g)
  \/ \E g \in GatewayNames : GetCallbackHandler(g)

FactorySpec == FactoryInit /\ [][FactoryNext]_vars

\* a caller of one EcpayDAO: a checkout, then its callback or a request to
\* the gateway
DaoInit == InitHelper /\ InitFactory /\ InitDao /\ InitAdapter /\ InitThreads /\ InitSteps /\ InitEncode /\ config = TestConfig

DaoNext ==
  \/ BuildCheckoutFormData
  \/ VerifyCallbackData
  \/ SendQueryOrderRequest
  \/ SendActionRequest

DaoSpec == DaoInit /\ [][DaoNext]_vars

\* the callers of one EcpayAdapter, built with one of the DAOs
AdapterInit ==
  /\ InitHelper /\ InitFactory /\ InitDao /\ InitThreads /\ InitSteps /\ InitEncode
  /\ config = TestConfig
  /\ adapter_dao \in AdapterDaos
  /\ NoAdapterCall

AdapterNext ==
  \/ PayWithCredit
  \/ PayWithAtm
  \/ PayWithCvs
  \/ PayWithBarcode
  \/ PayWithWebAtm
  \/ PayWithApplePay
  \/ PayWithTwqr
  \/ PayWithBnpl
  \/ PayWithEcpayPay
  \/ PayAllOptions
  \/ Capture
  \/ Refund
  \/ CancelAuthorization
  \/ AbandonTransaction

AdapterSpec == AdapterInit /\ [][AdapterNext]_vars

\* threads that share the helper built from the secrets of TestDao
ThreadInit ==
  /\ InitHelper /\ InitFactory /\ InitDao /\ InitAdapter /\ InitSteps /\ InitEncode
  /\ config = TestConfig
  /\ shared_helper = TestDao.security_helper
  /\ IdleThreads

ThreadNext ==
  \E t \in Threads :
    \/ ThreadCall(t)
    \/ ThreadReadKey(t)
    \/ ThreadReadIv(t)
    \/ ThreadFinish(t)
    \/ ThreadReturn(t)

ThreadSpec == ThreadInit /\ [][ThreadNext]_vars

\* one caller of the helper built from the secrets of TestDao: a signature
\* followed line by line, then the verification of what comes back
StepInit ==
  /\ InitFactory /\ InitDao /\ InitAdapter /\ InitThreads /\ InitEncode /\ config = TestConfig
  /\ helper = TestDao.security_helper
  /\ init_args = << TestDao.security_helper.hash_key, TestDao.security_helper.hash_iv >>
  /\ init_result = "return"
  /\ pc = "ready"
  /\ params = << >> /\ mac = None /\ params2 = << >> /\ mac2 = None
  /\ received = << >> /\ verdict = NoCall
  /\ \E p \in StepParams :
       /\ step_call = << "calculate_check_mac_value", p >>
       /\ arg_now = p
  /\ step_line = "called"
  /\ step_local = NoStepLocals
  /\ step_result = NoCall
  /\ step_history = << >>

StepNext ==
  \/ StepCopy
  \/ StepSort
  \/ StepJoin
  \/ StepFull
  \/ StepEncode
  \/ StepHash
  \/ StepReturn
  \/ StepVerify
  \/ StepReceive

StepSpec == StepInit /\ [][StepNext]_vars

\* the calls of ecpay_url_encode on the texts of at most MaxTextLen characters
EncodeInit ==
  /\ InitHelper /\ InitFactory /\ InitDao /\ InitAdapter /\ InitThreads /\ InitSteps
  /\ config = TestConfig
  /\ encode_text \in EncodeTexts
  /\ encode_result = None

EncodeNext == EcpayUrlEncode

EncodeSpec == EncodeInit /\ [][EncodeNext]_vars

\* the callers of one EcpayAdapter that queries its orders
QueryInit ==
  /\ InitHelper /\ InitFactory /\ InitDao /\ InitThreads /\ InitSteps /\ InitEncode
  /\ config = TestConfig
  /\ adapter_dao \in QueryDaos
  /\ NoAdapterCall

QueryNext == QueryTransaction

QuerySpec == QueryInit /\ [][QueryNext]_vars

\* ------------------------------------------------------------------------
\* Properties
\* ------------------------------------------------------------------------

Verified == verdict /= NoCall

Recalculated == mac2 /= None

ReceivedMac == DictGet(received, CheckMacValueKey)

ReceivedFields == DictDel(received, CheckMacValueKey)

Accepted == << "return", TRUE >>

Rejected == << "return", FALSE >>

\* s and t have the same length and differ in exactly one place
OneCharApart(s, t) ==
  /\ Len(s) = Len(t)
  /\ Cardinality({ i \in 1..Len(s) : s[i] /= t[i] }) = 1

\* s and t differ, if at all, in the case of ASCII letters
SameUpToAsciiCase(s, t) ==
  /\ Len(s) = Len(t)
  /\ \A i \in 1..Len(s) : s[i] = t[i] \/ (IsLetter(s[i]) /\ t[i] = SwapCase(s[i]))

\* q is p with one character of the text of one value changed
SingleCharMutation(p, q) ==
  /\ Len(p) = Len(q)
  /\ \A i \in 1..Len(p) : p[i][1] = q[i][1]
  /\ \E i \in 1..Len(p) :
       /\ OneCharApart(Format(p[i][2]), Format(q[i][2]))
       /\ \A j \in 1..Len(p) : j /= i => p[j][2] = q[j][2]

\* q is p with the letter case of one str value changed
CaseMutation(p, q) ==
  /\ Len(p) = Len(q)
  /\ \A i \in 1..Len(p) : p[i][1] = q[i][1]
  /\ \E i \in 1..Len(p) :
       /\ p[i][2][1] = "str" /\ q[i][2][1] = "str"
       /\ p[i][2][2] /= q[i][2][2]
       /\ SameUpToAsciiCase(p[i][2][2], q[i][2][2])
       /\ \A j \in 1..Len(p) : j /= i => p[j][2] = q[j][2]

Tampered == Verified /\ DictHas(received, CheckMacValueKey) /\ ReceivedMac = mac
              /\ SingleCharMutation(params, ReceivedFields)

\* C1: a mapping that carries the signature calculated over its other items
\* verifies: the verifier returns True.
C1_RoundTrip ==
  (Verified /\ received = Signed(params, mac)) => verdict = Accepted

C1_Witness ==
  Verified /\ received = Signed(params, mac) /\ Len(params) = MaxParams /\ verdict = Accepted

\* C2 as claimed: after any change of a single character of one value the
\* signature of the original mapping is rejected, the verifier returns False.
C2_TamperRejected == Tampered => verdict = Rejected

\* C2 as amended: a change of a single character of one value is rejected
\* unless it only changes the case of an ASCII letter.
C2_TamperRejectedUnlessCase ==
  (Tampered /\ ~CaseMutation(params, ReceivedFields)) => verdict = Rejected

C2_Witness ==
  Tampered /\ ~CaseMutation(params, ReceivedFields) /\ Len(params) = MaxParams
    /\ verdict = Rejected

\* C3: a received mapping without a CheckMacValue key is answered with False,
\* not with an exception.
C3_MissingFieldFalse ==
  (Verified /\ ~DictHas(received, CheckMacValueKey)) => verdict = Rejected

C3_Witness ==
  Verified /\ ~DictHas(received, CheckMacValueKey) /\ Len(received) > 0 /\ verdict = Rejected

\* C4: whatever CheckMacValue a received mapping carries, if it differs from
\* the recomputed signature the verifier returns False and raises nothing.
C4_MismatchIsFalse ==
  (Verified /\ DictHas(received, CheckMacValueKey)
     /\ ReceivedMac /= calculate_check_mac_value(helper, received))
    => verdict = Rejected

\* C5: the valid signature in lower case is rejected.
C5_LowercaseRejected ==
  (Verified /\ DictHas(received, CheckMacValueKey) /\ ReceivedFields = params
     /\ ReceivedMac = S(Lower(mac[2])))
    => verdict = Rejected

C5_Witness ==
  Verified /\ received = Signed(params, S(Lower(mac[2]))) /\ Len(params) > 0
    /\ verdict = Rejected

\* C6: the signature does not depend on the order in which the items were
\* inserted, also when two keys are equal after lower-casing.
C6_OrderIndependent ==
  (Recalculated /\ params2 \in Reorderings(params)) => mac2 = mac

\* C7 as claimed: changing the letter case of one value changes the signature.
C7_ValueCaseChangesMac ==
  (Recalculated /\ CaseMutation(params, params2)) => mac2 /= mac

\* C7 as amended: changing the case of ASCII letters of one value leaves the
\* signature unchanged, the whole encoded string being lower-cased.
C7_ValueCaseKeepsMac ==
  (Recalculated /\ CaseMutation(params, params2)) => mac2 = mac

C7_Witness ==
  Recalculated /\ CaseMutation(params, params2) /\ Len(params) = MaxParams /\ mac2 = mac

IsSignature(m) ==
  /\ m[1] = "str"
  /\ Len(m[2]) = 64
  /\ \A i \in 1..Len(m[2]) : (m[2][i] >= 48 /\ m[2][i] <= 57) \/ (m[2][i] >= 65 /\ m[2][i] <= 70)

\* C10: every signature returned is 64 characters out of 0-9 and A-F.
C10_SignatureFormat ==
  /\ pc \in { "signed", "verified", "done" } => IsSignature(mac)
  /\ Recalculated => IsSignature(mac2)

C10_Witness == pc = "signed" /\ params = << >> /\ IsSignature(mac)

\* -- the factory --

EcpaySecretMissing ==
  /\ config.ecpay /= NoConfig
  /\ \/ Falsy(Get(config.ecpay, "hash_key", S(<< >>)))
     \/ Falsy(Get(config.ecpay, "hash_iv", S(<< >>)))

\* C9: a helper is never built with an empty or missing hash_key or hash_iv:
\* the constructor raises; through the factory the call fails with that
\* error and no ecpay helper, DAO or adapter exists afterwards.
C9_FailFast ==
  /\ init_result /= "none" =>
       (init_result = "ValueError" <=> (Falsy(init_args[1]) \/ Falsy(init_args[2])))
  /\ pc /= "new" => (~Falsy(helper.hash_key) /\ ~Falsy(helper.hash_iv))
  /\ \A g \in DOMAIN security_helper_cache :
       security_helper_cache[g].cls = "EcpaySecurityHelper" =>
         (~Falsy(security_helper_cache[g].hash_key) /\ ~Falsy(security_helper_cache[g].hash_iv))
  /\ EcpaySecretMissing =>
       /\ "ecpay" \notin DOMAIN security_helper_cache
       /\ "ecpay" \notin DOMAIN dao_cache
       /\ "ecpay" \notin DOMAIN adapter_cache
       /\ created.helper = 0
       /\ call[2] = "ecpay" =>
            outcome = << "raise", IF call[1] = "get_callback_handler"
                                  THEN "NotImplementedError" ELSE "ValueError" >>

C9_Witness ==
  /\ EcpaySecretMissing
  /\ config.ecpay.merchant_id /= Absent
  /\ call = << "get_adapter", "ecpay" >>
  /\ outcome = << "raise", "ValueError" >>
  /\ init_result = "ValueError"

\* every object a cache holds stays in it, unchanged
Kept(cache) == \A g \in DOMAIN cache : g \in DOMAIN cache' /\ cache'[g] = cache[g]

\* the helpers the factory has built (the cache holds None for other gateways)
HelpersCached == { g \in DOMAIN security_helper_cache : security_helper_cache[g] /= NoObject }

AdapterRequested == call[1] \in { "get_adapter", "get_transaction_adapter" } /\ outcome[1] = "return"

\* C18: the adapter of a gateway name, once built, is the one every
\* get_adapter and get_transaction_adapter call for that name returns, and
\* the factory never builds a second adapter, DAO or security helper for a
\* name: the objects built are exactly the ones the caches hold.
C18_FactoryCaching ==
  [][/\ Kept(adapter_cache)
     /\ (AdapterRequested => call[2] \in DOMAIN adapter_cache /\ outcome[2] = adapter_cache[call[2]])'
     /\ (created.adapter = Cardinality(DOMAIN adapter_cache))'
     /\ (created.dao = Cardinality(DOMAIN dao_cache))'
     /\ (created.helper = Cardinality(HelpersCached))']_vars

\* the ecpay adapter was built first, the tappay adapter second, and a later
\* get_transaction_adapter call for ecpay returned the first
C18_Witness ==
  /\ call = << "get_transaction_adapter", "ecpay" >>
  /\ outcome[1] = "return"
  /\ outcome[2].id = 1
  /\ created = [helper |-> 1, dao |-> 2, adapter |-> 2]

\* C19: the DAO of a gateway name, once built, stays the one of that name;
\* get_callback_handler returns it and the adapter of that name holds it.
C19_SharedDao ==
  [][/\ Kept(dao_cache)
     /\ (\A g \in DOMAIN adapter_cache :
           g \in DOMAIN dao_cache /\ adapter_cache[g].dao = dao_cache[g])'
     /\ (call[1] = "get_callback_handler" /\ outcome[1] = "return" =>
           call[2] \in DOMAIN dao_cache /\ outcome[2] = dao_cache[call[2]])'
     /\ (AdapterRequested => outcome[2].dao = dao_cache[call[2]])']_vars

\* the handler was requested after the adapter and is the adapter's DAO
C19_Witness ==
  /\ call = << "get_callback_handler", "ecpay" >>
  /\ "ecpay" \in DOMAIN adapter_cache
  /\ outcome = << "return", adapter_cache["ecpay"].dao >>
  /\ outcome[2].cls = "EcpayDAO"

Built == dao_call[1] = "build_checkout_form_data" /\ dao_outcome[1] = "return"

\* the mapping the security helper was asked to sign
SignedMapping == helper_calls[1][2]

\* an API method posted its request and the gateway answered HTTP 200
Answered200 ==
  /\ dao_call[1] \in { "send_query_order_request", "send_action_request" }
  /\ posted /= << >>
  /\ gateway_reply.kind = "response"
  /\ gateway_reply.status_code = 200

\* the fields of the gateway's answer
ParsedReply == IF gateway_reply.text = << >> THEN << >> ELSE ParseResponse(gateway_reply.text)

\* C15: when build_checkout_form_data returns, the security helper was asked
\* once, for a mapping that holds MerchantID (the caller's, or the
\* configuration's when the caller gave none) beside the caller's fields, and
\* the form data returned holds the caller's fields, that MerchantID, and the
\* signature of that mapping as CheckMacValue, and nothing else.
C15_MerchantIdBeforeSignature ==
  Built =>
    LET given == dao_call[2]
        form == dao_outcome[2]
        merchant_id == IF DictHas(given, MerchantIDKey) THEN DictGet(given, MerchantIDKey)
                       ELSE TestDao.merchant_id
    IN /\ Len(helper_calls) = 1
       /\ helper_calls[1][1] = "calculate_check_mac_value"
       /\ DictHas(SignedMapping, MerchantIDKey)
       /\ DictGet(SignedMapping, MerchantIDKey) = merchant_id
       /\ \A i \in 1..Len(given) :
            /\ DictHas(SignedMapping, given[i][1])
            /\ given[i][1] /= MerchantIDKey => DictGet(SignedMapping, given[i][1]) = given[i][2]
       /\ \A i \in 1..Len(form) :
            \/ form[i][1] \in { MerchantIDKey, CheckMacValueKey }
            \/ DictHas(given, form[i][1]) /\ DictGet(given, form[i][1]) = form[i][2]
       /\ \A i \in 1..Len(given) : DictHas(form, given[i][1])
       /\ DictHas(form, MerchantIDKey)
       /\ DictGet(form, MerchantIDKey) = merchant_id
       /\ DictHas(form, CheckMacValueKey)
       /\ DictGet(form, CheckMacValueKey)
            = calculate_check_mac_value(TestDao.security_helper, SignedMapping)

\* the checkout of the tests, which names no MerchantID, was built
C15_Witness ==
  /\ Built
  /\ dao_call[2] = TestCheckout
  /\ DictGet(SignedMapping, MerchantIDKey) = TestDao.merchant_id
  /\ Len(dao_outcome[2]) = Len(TestCheckout) + 2

\* C12: an API call answered with HTTP 200 and with fields that the security
\* helper does not accept raises AuthenticationError and does not return the
\* response.
C12_ResponseIntegrity ==
  (/\ Answered200
   /\ ParsedReply /= << >>
   /\ verify_check_mac_value(TestDao.security_helper, ParsedReply) = Rejected) =>
    /\ dao_outcome[1] = "raise"
    /\ dao_outcome[2].cls = "AuthenticationError"

\* C13: send_action_request, answered with HTTP 200 and an RtnCode other than
\* "1", raises GatewayError with that RtnCode as code, a message that holds
\* the RtnMsg and the parsed fields as raw_response, after the security helper
\* was asked to verify those fields.
C13_RtnCodeError ==
  (/\ Answered200
   /\ dao_call[1] = "send_action_request"
   /\ DictHas(ParsedReply, RtnCodeKey)
   /\ DictGet(ParsedReply, RtnCodeKey) /= S(<< 49 >>)) =>
    /\ dao_outcome[1] = "raise"
    /\ dao_outcome[2].cls = "GatewayError"
    /\ dao_outcome[2].code = DictGet(ParsedReply, RtnCodeKey)
    /\ DictHas(ParsedReply, RtnMsgKey) =>
         Contains(dao_outcome[2].message, DictGet(ParsedReply, RtnMsgKey)[2])
    /\ dao_outcome[2].raw_response = Dict(ParsedReply)
    /\ \E i \in 1..Len(helper_calls) :
         helper_calls[i] = << "verify_check_mac_value", ParsedReply >>

\* C14: send_query_order_request, answered with HTTP 200 and fields that
\* hold TradeStatus and no RtnCode, returns those fields.
C14_QueryReturnsFields ==
  (/\ Answered200
   /\ dao_call[1] = "send_query_order_request"
   /\ DictHas(ParsedReply, TradeStatusKey)
   /\ ~DictHas(ParsedReply, RtnCodeKey)) =>
    dao_outcome = << "return", ParsedReply >>

\* ------------------------------------------------------------------------
\* EcpayAdapter
\* ------------------------------------------------------------------------

PaymentMethods ==
  { "pay_with_credit", "pay_with_atm", "pay_with_cvs", "pay_with_barcode", "pay_with_webatm",
    "pay_with_applepay", "pay_with_twqr", "pay_with_bnpl", "pay_with_ecpay_pay",
    "pay_all_options" }

PaymentOutputFields ==
  { "success", "status", "gateway_trade_no", "order_id", "message", "error_code",
    "raw_response", "redirect_url", "redirect_method", "redirect_form_data",
    "payment_method_name", "payment_info" }

\* the adapter asked its DAO for the form data and the DAO raised one of the
\* SDK's three errors
CheckoutFailed ==
  /\ dao_requests /= << >>
  /\ dao_requests[1][1] = "build_checkout_form_data"
  /\ adapter_dao.build_checkout_form_data[1] = "raise"
  /\ adapter_dao.build_checkout_form_data[2].cls
       \in { "ValidationError", "GatewayError", "AuthenticationError" }

\* C16: every pay_with_* and pay_all_options call returns a PaymentOutput,
\* whatever the input and whatever the DAO does; when the DAO's
\* build_checkout_form_data raised ValidationError, GatewayError or
\* AuthenticationError, the output has success False and status ERROR, its
\* message holds the error's message, its error_code is the error's code and
\* its order_id the input's.
C16_InitiationNeverRaises ==
  adapter_call[1] \in PaymentMethods =>
    /\ adapter_outcome[1] = "return"
    /\ DOMAIN adapter_outcome[2] = PaymentOutputFields
    /\ adapter_outcome[2].success \in BOOLEAN
    /\ CheckoutFailed =>
         /\ adapter_outcome[2].success = FALSE
         /\ adapter_outcome[2].status = "ERROR"
         /\ Contains(adapter_outcome[2].message[2], adapter_dao.build_checkout_form_data[2].message)
         /\ adapter_outcome[2].error_code = adapter_dao.build_checkout_form_data[2].code
         /\ adapter_outcome[2].order_id = adapter_call[2].order_id

\* pay_with_atm with the input of the tests, on a DAO that raises
\* GatewayError("DAO failed", code="D101")
C16_Witness ==
  /\ adapter_call[1] = "pay_with_atm"
  /\ adapter_call[2] = AtmInput
  /\ CheckoutFailed
  /\ adapter_dao.build_checkout_form_data[2].cls = "GatewayError"
  /\ adapter_outcome[2].error_code = S(<< 68, 49, 48, 49 >>)

ActionMethods == { "capture", "refund", "cancel_authorization", "abandon_transaction" }

\* per method: the status of a success, the Action sent, the field of the
\* input that holds the amount
SucceededStatus ==
  [capture |-> "SUCCESS", refund |-> "REFUNDED", cancel_authorization |-> "CANCELED",
   abandon_transaction |-> "CANCELED"]

ActionSent ==
  [capture |-> S(<< 67 >>), refund |-> S(<< 82 >>), cancel_authorization |-> S(<< 69 >>),
   abandon_transaction |-> S(<< 78 >>)]

AmountField ==
  [capture |-> "capture_amount", refund |-> "refund_amount",
   cancel_authorization |-> "original_amount", abandon_transaction |-> "original_amount"]

\* the DAO returned a response with RtnCode "1"
RtnCodeIsOne ==
  /\ adapter_dao.send_action_request[1] = "return"
  /\ DictHas(adapter_dao.send_action_request[2][2], RtnCodeKey)
  /\ DictGet(adapter_dao.send_action_request[2][2], RtnCodeKey) = S(<< 49 >>)

\* C17: capture, refund, cancel_authorization and abandon_transaction call
\* the DAO once, with MerchantTradeNo, TradeNo, Action and TotalAmount of
\* the input, and with PlatformID exactly when the input has one; success
\* is True exactly when the DAO returned a response with RtnCode "1", the
\* status is then the method's (SUCCESS, REFUNDED, CANCELED, CANCELED), and
\* for any other response it is FAILED with the response's RtnCode as
\* error_code.
C17_ActionOutcome ==
  adapter_call[1] \in ActionMethods =>
    LET method == adapter_call[1]
        input == adapter_call[2]
        sent == dao_requests[1][2]
        response == adapter_dao.send_action_request[2][2]
        output == adapter_outcome[2]
    IN /\ Len(dao_requests) = 1
       /\ dao_requests[1][1] = "send_action_request"
       /\ Len(sent) = IF input.platform_id = None THEN 4 ELSE 5
       /\ DictHas(sent, MerchantTradeNoKey)
       /\ DictGet(sent, MerchantTradeNoKey) = input.merchant_trade_no
       /\ DictHas(sent, TradeNoKey)
       /\ DictGet(sent, TradeNoKey) = input.gateway_trade_no
       /\ DictHas(sent, ActionKey)
       /\ DictGet(sent, ActionKey) = ActionSent[method]
       /\ DictHas(sent, TotalAmountKey)
       /\ DictGet(sent, TotalAmountKey) = input[AmountField[method]]
       /\ DictHas(sent, PlatformIDKey) <=> input.platform_id /= None
       /\ DictHas(sent, PlatformIDKey) => DictGet(sent, PlatformIDKey) = input.platform_id
       /\ adapter_outcome[1] = "return"
       /\ output.success <=> RtnCodeIsOne
       /\ RtnCodeIsOne => output.status = SucceededStatus[method]
       /\ (adapter_dao.send_action_request[1] = "return" /\ ~RtnCodeIsOne) =>
            /\ output.status = "FAILED"
            /\ output.error_code = GetOr(response, RtnCodeKey, None)

\* a refund for a platform's merchant succeeded
C17_Witness ==
  /\ adapter_call[1] = "refund"
  /\ adapter_call[2].platform_id /= None
  /\ DictHas(dao_requests[1][2], PlatformIDKey)
  /\ adapter_outcome[2].success
  /\ adapter_outcome[2].status = "REFUNDED"

\* ------------------------------------------------------------------------
\* Threads
\* ------------------------------------------------------------------------

\* what a call returns when it runs alone on the helper as it was built
Alone(c) ==
  IF c[1] = "calculate_check_mac_value"
  THEN << "return", calculate_check_mac_value(TestDao.security_helper, c[2]) >>
  ELSE verify_check_mac_value(TestDao.security_helper, c[2])

\* C11: whatever the threads do, the shared helper keeps the hash_key and
\* hash_iv it was built with, and every call that has returned returned
\* what it returns when run alone on its argument.
C11_ThreadSafe ==
  /\ shared_helper = TestDao.security_helper
  /\ \A t \in Threads :
       thread_pc[t] = "done" => thread_result[t] = Alone(thread_call[t])

\* two threads were in their calls at the same time: the first has its
\* signature, the second has accepted the signed callback
C11_Witness ==
  \E t, u \in Threads :
    /\ t /= u
    /\ thread_pc[t] = "done"
    /\ thread_call[t][1] = "calculate_check_mac_value"
    /\ thread_result[t][1] = "return"
    /\ thread_pc[u] = "done"
    /\ thread_call[u] = << "verify_check_mac_value", SignedCallback >>
    /\ thread_result[u] = Accepted

\* ------------------------------------------------------------------------
\* The signer, line by line
\* ------------------------------------------------------------------------

Calculating == step_call[1] = "calculate_check_mac_value"

Verifying == step_call[1] = "verify_check_mac_value"

\* the lines at which a local has been assigned
HasCopy == step_line \in { "copied", "sorted", "joined", "full", "encoded", "hashed" }
              \/ (step_line = "returned" /\ step_local.check_mac_value /= None)

HasParamString == HasCopy /\ step_line \notin { "copied", "sorted" }

HasEncodedString == HasParamString /\ step_line \notin { "joined", "full" }

HasMac == step_local.check_mac_value /= None

\* "HashKey=" + hash_key + "&" + canonical + "&HashIV=" + hash_iv
MarkedText(canonical) ==
  << 72, 97, 115, 104, 75, 101, 121, 61 >> \o helper.hash_key[2] \o << 38 >> \o canonical \o << 38, 72, 97, 115, 104, 73, 86, 61 >> \o helper.hash_iv[2]   \* "HashKey=", "&", "&HashIV="

\* C21: the signature is the upper-case hexadecimal SHA-256 digest of the
\* lower-cased encoding of "HashKey=" + hash_key + "&" + parameter string +
\* "&HashIV=" + hash_iv; the whole encoded string is in lower case, its
\* markers included, and for the empty mapping the text holds "&&".
C21_SignerAlgorithm ==
  /\ HasEncodedString =>
       /\ step_local.encoded_string
            = Lower(ecpay_url_encode(MarkedText(step_local.param_string)))
       /\ \A i \in 1..Len(step_local.encoded_string) :
            ~(step_local.encoded_string[i] >= 65 /\ step_local.encoded_string[i] =< 90)
       /\ StartsWith(step_local.encoded_string, << 104, 97, 115, 104, 107, 101, 121, 37, 51, 100 >>)   \* "hashkey%3d"
       /\ Contains(step_local.encoded_string, << 37, 50, 54, 104, 97, 115, 104, 105, 118, 37, 51, 100 >>)   \* "%26hashiv%3d"
       /\ step_local.params_copy = << >> => Contains(step_local.full_string, << 38, 38 >>)   \* "&&"
  /\ step_line = "hashed" =>
       step_local.check_mac_value
         = S(Upper(HexDigest(Utf8Bytes(step_local.encoded_string))))
  /\ (step_line = "returned" /\ Calculating) =>
       step_result = << "return", step_local.check_mac_value >>

\* the empty mapping has been signed
C21_Witness ==
  /\ step_line = "returned"
  /\ Calculating
  /\ step_call[2] = << >>
  /\ step_result[1] = "return"
  /\ Len(step_result[2][2]) = 64

\* the text of a value: a str as it is, an int in decimal digits
ValueText(v) == IF v[1] = "int" THEN IntStr(v[2]) ELSE v[2]

\* the entries of d in the order given, as Key=Value joined by "&"
Rendered(d, order) ==
  Join(<< 38 >>, [i \in 1..Len(d) |-> d[order[i]][1] \o << 61 >> \o ValueText(d[order[i]][2])])   \* "&", "="

Orders(n) == { o \in [1..n -> 1..n] : \A i, j \in 1..n : o[i] = o[j] => i = j }

\* C22: the parameter string is the entries in an order in which the
\* lower-cased keys never decrease, each as Key=Value with the key as it was
\* given and the value's text as it is, joined by "&"; it is empty for the
\* empty mapping.
C22_Canonicalizer ==
  HasParamString =>
    /\ \E o \in Orders(Len(step_local.params_copy)) :
         /\ \A i, j \in 1..Len(step_local.params_copy) :
              i < j => ~StrLess(Lower(step_local.params_copy[o[j]][1]),
                                Lower(step_local.params_copy[o[i]][1]))
         /\ step_local.param_string = Rendered(step_local.params_copy, o)
    /\ step_local.params_copy = << >> => step_local.param_string = << >>

\* B = 1 and a = "x", given in this order, are joined as "a=x&B=1"
C22_Witness ==
  /\ step_line = "joined"
  /\ step_local.params_copy = << << << 66 >>, << "int", 1 >> >>, << << 97 >>, S(<< 120 >>) >> >>   \* "B", "a", "x"
  /\ step_local.param_string = << 97, 61, 120, 38, 66, 61, 49 >>   \* "a=x&B=1"

\* C23: CheckMacValue never reaches the parameter string: the signature of a
\* mapping that holds one is the signature of the mapping without it, and
\* the verifier compares the value it received with the signature of the
\* received mapping without it.
C23_ReservedKeyExcluded ==
  /\ HasCopy =>
       /\ step_local.params_copy = DictDel(step_call[2], CheckMacValueKey)
       /\ ~DictHas(step_local.params_copy, CheckMacValueKey)
  /\ HasParamString =>
       step_local.param_string
         = ParamString(SortedParams(DictDel(step_call[2], CheckMacValueKey)))
  /\ (step_line = "returned" /\ Calculating /\ DictHas(step_call[2], CheckMacValueKey)) =>
       step_result = << "return", calculate_check_mac_value(helper, DictDel(step_call[2], CheckMacValueKey)) >>
  /\ (Verifying /\ HasCopy) =>
       step_local.received_mac = DictGet(step_call[2], CheckMacValueKey)
  /\ (step_line = "returned" /\ Verifying /\ HasMac) =>
       step_result = compare_digest(DictGet(step_call[2], CheckMacValueKey),
                                    calculate_check_mac_value(helper, DictDel(step_call[2], CheckMacValueKey)))

\* a mapping with a stale CheckMacValue has been signed
C23_Witness ==
  /\ step_line = "returned"
  /\ Calculating
  /\ step_call[2] = Signed(<< << << 97 >>, S(<< 120 >>) >> >>, StaleMac)   \* "a", "x"
  /\ step_local.param_string = << 97, 61, 120 >>   \* "a=x"

\* the mapping signed before, and its signature
SignedBefore == step_history[1][2]

MacBefore == step_history[1][3][2]

\* C24: a mapping signed with int values verifies when it comes back with
\* every int value as the str of its decimal digits.
C24_IntegerAsString ==
  ( /\ step_line = "returned"
    /\ Verifying
    /\ Len(step_history) = 1
    /\ step_call[2] = Signed(Stringified(SignedBefore), MacBefore) )
  => step_result = << "return", TRUE >>

\* TotalAmount 150 and EncryptType 1 were signed and came back as "150", "1"
C24_Witness ==
  /\ step_line = "returned"
  /\ Verifying
  /\ Len(step_history) = 1
  /\ SignedBefore = << << TotalAmountKey, << "int", 150 >> >>, << EncryptTypeKey, << "int", 1 >> >> >>
  /\ step_call[2] = << << TotalAmountKey, S(<< 49, 53, 48 >>) >>, << EncryptTypeKey, S(<< 49 >>) >>,   \* "150", "1"
                       << CheckMacValueKey, MacBefore >> >>
  /\ step_result = << "return", TRUE >>

\* C26: at every line of calculate_check_mac_value and verify_check_mac_value,
\* and after they return, the caller's mapping is as it was passed.
C26_ArgumentUntouched == step_call /= NoCall => arg_now = step_call[2]

\* both calls have returned on a mapping that holds a CheckMacValue
C26_Witness ==
  /\ step_line = "returned"
  /\ Verifying
  /\ HasMac
  /\ DictHas(SignedBefore, CheckMacValueKey)
  /\ DictHas(arg_now, CheckMacValueKey)

\* the same keys, each with the same text as value
SameEntries(d, e) ==
  /\ \A i \in 1..Len(d) : DictHas(e, d[i][1]) /\ ValueText(DictGet(e, d[i][1])) = ValueText(d[i][2])
  /\ \A i \in 1..Len(e) : DictHas(d, e[i][1])

\* C28: a mapping whose parameter string is the one just built holds the
\* same keys with the same texts as the mapping it was built from.
C28_CanonicalInjective ==
  step_line = "joined" =>
    \A q \in StepParams :
      ( /\ ~DictHas(q, CheckMacValueKey)
        /\ ParamString(SortedParams(q)) = step_local.param_string )
      => SameEntries(q, step_local.params_copy)

\* ------------------------------------------------------------------------
\* The percent-encoder
\* ------------------------------------------------------------------------

\* what the encoder makes of one character: itself for the letters, the
\* digits and - _ . ~ ! * ( ), "+" for the space, and for each of the others
\* the %XX of its UTF-8 bytes
Image(c) ==
  IF (c >= 48 /\ c =< 57) \/ (c >= 65 /\ c =< 90) \/ (c >= 97 /\ c =< 122) THEN << c >>
  ELSE IF c \in { 45, 95, 46, 126, 33, 42, 40, 41 } THEN << c >>
  ELSE IF c = 32 THEN << 43 >>   \* "+"
  ELSE IF c = 61 THEN << 37, 51, 68 >>   \* "%3D"
  ELSE IF c = 38 THEN << 37, 50, 54 >>   \* "%26"
  ELSE IF c = 43 THEN << 37, 50, 66 >>   \* "%2B"
  ELSE IF c = 37 THEN << 37, 50, 53 >>   \* "%25"
  ELSE IF c = 35 THEN << 37, 50, 51 >>   \* "%23"
  ELSE IF c = 47 THEN << 37, 50, 70 >>   \* "%2F"
  ELSE IF c = 58 THEN << 37, 51, 65 >>   \* "%3A"
  ELSE IF c = 233 THEN << 37, 67, 51, 37, 65, 57 >>   \* "%C3%A9"
  ELSE IF c = 20013 THEN << 37, 69, 52, 37, 66, 56, 37, 65, 68 >>   \* "%E4%B8%AD"
  ELSE << 37, 70, 48, 37, 57, 70, 37, 57, 56, 37, 56, 48 >>   \* "%F0%9F%98%80"

RECURSIVE Images(_)
Images(t) == IF t = << >> THEN << >> ELSE Images(SubSeq(t, 1, Len(t) - 1)) \o Image(t[Len(t)])

Answer == adapter_dao.send_query_order_request[2][2]

AnswerStatus == GetOr(Answer, TradeStatusKey, None)

AnswerType == GetOr(Answer, << 80, 97, 121, 109, 101, 110, 116, 84, 121, 112, 101 >>, None)   \* "PaymentType"

TypeStartsWith(prefix) == AnswerType /= None /\ StartsWith(AnswerType[2], prefix)

\* a query was made, and the DAO answered it with a TradeStatus
StatusAnswered ==
  /\ adapter_call[1] = "query_transaction"
  /\ dao_requests /= << >>
  /\ adapter_dao.send_query_order_request[1] = "return"
  /\ DictHas(Answer, TradeStatusKey)

\* C27: the status of the queried transaction is SUCCESS for TradeStatus
\* "1"; for "0" PENDING when PaymentType starts with ATM, CVS or BARCODE and
\* FAILED otherwise; FAILED for "10200095"; for "2" APPLYING when
\* PaymentType starts with BNPL and PENDING otherwise; PENDING for
\* "10100073"; UNKNOWN for any other code and for None.
C27_TradeStatusMapping ==
  StatusAnswered =>
    /\ adapter_outcome[1] = "return"
    /\ adapter_outcome[2].success
    /\ Len(adapter_outcome[2].transactions) = 1
    /\ adapter_outcome[2].transactions[1].status =
         ( IF AnswerStatus = S(<< 49 >>) THEN "SUCCESS"   \* "1"
           ELSE IF AnswerStatus = S(<< 48 >>)   \* "0"
           THEN IF TypeStartsWith(<< 65, 84, 77 >>) \/ TypeStartsWith(<< 67, 86, 83 >>) \/ TypeStartsWith(<< 66, 65, 82, 67, 79, 68, 69 >>)   \* "ATM", "CVS", "BARCODE"
                THEN "PENDING" ELSE "FAILED"
           ELSE IF AnswerStatus = S(<< 49, 48, 50, 48, 48, 48, 57, 53 >>) THEN "FAILED"   \* "10200095"
           ELSE IF AnswerStatus = S(<< 50 >>)   \* "2"
           THEN IF TypeStartsWith(<< 66, 78, 80, 76 >>) THEN "APPLYING" ELSE "PENDING"   \* "BNPL"
           ELSE IF AnswerStatus = S(<< 49, 48, 49, 48, 48, 48, 55, 51 >>) THEN "PENDING"   \* "10100073"
           ELSE "UNKNOWN" )

\* the query of test_query_transaction_success: TradeStatus "0" of an ATM
\* payment is PENDING
C27_Witness ==
  /\ StatusAnswered
  /\ AnswerStatus = S(<< 48 >>)   \* "0"
  /\ AnswerType = S(<< 65, 84, 77, 95, 66, 79, 84 >>)   \* "ATM_BOT"
  /\ adapter_outcome[2].transactions[1].status = "PENDING"
  /\ adapter_outcome[2].transactions[1].amount = << "int", 150 >>

\* ------------------------------------------------------------------------
\* EcpayDAO: what goes out verifies and is signed whole
\* ------------------------------------------------------------------------

\* build_checkout_form_data returned form data, which now comes back as it
\* is to verify_callback_data of the same DAO
FormComesBack ==
  /\ dao_pc = "built"
  /\ dao_call[1] = "build_checkout_form_data"
  /\ dao_outcome[1] = "return"
  /\ dao_pc' = "called_back"
  /\ dao_call' = << "verify_callback_data", dao_outcome[2] >>

\* C29: the form data that build_checkout_form_data returns for a mapping
\* with the nine required keys is accepted (True) by verify_callback_data of
\* the same DAO, whether or not the mapping carried a CheckMacValue or a
\* MerchantID of its own.
C29_CheckoutDataVerifies ==
  [][ FormComesBack =>
        /\ HasAll(dao_call[2], CheckoutRequired)
        /\ dao_outcome' = << "return", TRUE >> ]_vars

\* the form data of a checkout that named its own MerchantID came back and
\* was accepted
C29_Witness ==
  /\ dao_pc = "called_back"
  /\ dao_call[1] = "verify_callback_data"
  /\ HasAll(dao_call[2], CheckoutRequired)
  /\ DictHas(dao_call[2], MerchantIDKey)
  /\ DictGet(dao_call[2], MerchantIDKey) = OtherMerchant
  /\ DictHas(dao_call[2], CheckMacValueKey)
  /\ dao_outcome = << "return", TRUE >>

\* the fields of a posted request beside its CheckMacValue
OtherFields(request) == DictDel(request.data, CheckMacValueKey)

\* an API call of the DAO posted a request
Posted == dao_pc = "sent" /\ posted /= << >>

\* C30: every request posted by _send_api_request holds MerchantID,
\* TimeStamp and, as CheckMacValue, the signature of all its other fields;
\* a MerchantID or TimeStamp of the caller is posted as given; the posted
\* fields are the signed ones, to which only CheckMacValue was set.
C30_PostedRequestSigned ==
  Posted =>
    \A i \in 1..Len(posted) :
      LET given == dao_call[2]
          sent == posted[i].data
      IN /\ DictHas(sent, MerchantIDKey)
         /\ DictHas(sent, TimeStampKey)
         /\ DictHas(sent, CheckMacValueKey)
         /\ DictGet(sent, CheckMacValueKey)
              = calculate_check_mac_value(TestDao.security_helper, OtherFields(posted[i]))
         /\ DictHas(given, MerchantIDKey)
              => DictGet(sent, MerchantIDKey) = DictGet(given, MerchantIDKey)
         /\ DictHas(given, TimeStampKey)
              => DictGet(sent, TimeStampKey) = DictGet(given, TimeStampKey)
         /\ Len(helper_calls) >= 1
         /\ helper_calls[1][1] = "calculate_check_mac_value"
         /\ DictHas(helper_calls[1][2], MerchantIDKey)
         /\ DictHas(helper_calls[1][2], TimeStampKey)
         /\ OtherFields(posted[i]) = DictDel(helper_calls[1][2], CheckMacValueKey)
         /\ \A j \in 1..Len(given) :
              given[j][1] /= CheckMacValueKey
                => DictHas(sent, given[j][1]) /\ DictGet(sent, given[j][1]) = given[j][2]

\* a query that brought a MerchantID, a TimeStamp and a stale CheckMacValue
\* of its own was posted with the first two kept and with a new signature
C30_Witness ==
  /\ Posted
  /\ dao_call[1] = "send_query_order_request"
  /\ DictHas(dao_call[2], TimeStampKey)
  /\ DictGet(posted[1].data, MerchantIDKey) = OtherMerchant
  /\ DictGet(posted[1].data, TimeStampKey) = S(<< 49 >>)   \* "1"
  /\ DictGet(posted[1].data, CheckMacValueKey) /= StaleMac
====
